---------------------------- MODULE Spec2Model ----------------------------
(***************************************************************************)
(* A model of egui-d3d9: the frame orchestrator EguiDx9 (app.rs), the      *)
(* texture cache TextureManager (texman.rs), the device state guard        *)
(* DxState (state.rs), the input queue InputManager (inputman.rs) and the  *)
(* process-wide clipboard slot (lib.rs).                                   *)
(*                                                                         *)
(* Every public operation (present, pre_reset, wnd_proc) is one action     *)
(* that runs the whole handler.  The Direct3D device, the toolkit (egui)   *)
(* and the OS clipboard are the environment: what the toolkit returns and  *)
(* which device call fails are inputs of the action.  The variables op,    *)
(* arg, res, log and pre record the last call (its input, its outcome, the *)
(* device calls it made in order, the state it started from); HostReturn   *)
(* is the host taking the result before it makes its next call.            *)
(***************************************************************************)
EXTENDS Integers, Sequences, FiniteSets, TLC

VARIABLES
    reactive,       \* EguiDx9.reactive
    should_reset,   \* EguiDx9.should_reset
    textures,       \* TextureManager.textures : TextureId -> ManagedTexture
    gpu,            \* the device's live default-pool textures : handle -> contents
    buffers,        \* EguiDx9.buffers : the vertex / index buffer pair
    prims,          \* EguiDx9.prims : Vec<MeshDescriptor>
    vertices,       \* EguiDx9.vertices
    indices,        \* EguiDx9.indices
    events,         \* InputManager.events
    modifiers,      \* InputManager.modifiers
    clipboard,      \* lib.rs CLIPBOARD : the lazily created clipboard context
    dev,            \* the device's pipeline state : transforms, render target, state block
    op,             \* the last call : "idle", "present", "pre_reset", "wnd_proc"
    arg,            \* its input
    res,            \* its outcome : "ok", "err", "panic"
    log,            \* the calls it made on the device, the toolkit and the cache, in order
    pre,            \* the state it started from
    uploaded,       \* per cached id, the image of the last upload of the whole texture
    threads         \* the threads inside get_clipboard_text / set_clipboard_text

vars == <<reactive, should_reset, textures, gpu, buffers, prims, vertices, indices,
          events, modifiers, clipboard, dev, op, arg, res, log, pre, uploaded, threads>>

(***************************************************************************)
(* Bounds of the model.                                                    *)
(***************************************************************************)
\* the largest texture width and height
MaxDim == 2
\* the pending events the orchestrator's specification carries between frames; the
\* growth of the queue is the subject of the input path's specification (MaxQueue)
MaxEvents == 1
\* the threads that call the clipboard functions
MaxThreads == 2

(***************************************************************************)
(* Data.                                                                   *)
(***************************************************************************)
\* Option::None of ManagedTexture.handle; live handles are 1, 2, ...
NoHandle == 0

Managed(n) == [tag |-> "Managed", id |-> n]
User(n) == [tag |-> "User", id |-> n]

\* two Color32 values <<r, g, b, a>> whose channels all differ
Colors == {<<10, 20, 30, 40>>, <<50, 60, 70, 80>>}

Min(S) == CHOOSE x \in S : \A y \in S : x <= y

\* f without key k
Remove(f, k) == [x \in (DOMAIN f) \ {k} |-> f[x]]

\* f with k mapped to v (HashMap::insert)
Insert(f, k, v) == [x \in (DOMAIN f) \cup {k} |-> IF x = k THEN v ELSE f[x]]

Fails(fail, phase, call, k) == <<phase, call, k>> \in fail

(***************************************************************************)
(* texman.rs : pixels.                                                     *)
(***************************************************************************)
\* Color32::to_array() then TextureColor { r: cols[0], g: cols[1], b: cols[2], a: cols[3] }
ToTextureColor(c) == [b |-> c[3], g |-> c[2], r |-> c[1], a |-> c[4]]

\* FontImage::srgba_pixels(None) at the two ends of the coverage range
SrgbaPixel(coverage) ==
    IF coverage = 0 THEN <<0, 0, 0, 0>> ELSE <<255, 255, 255, 255>>

pixels_from_imagedata(img) ==
    IF img.kind = "Font"
    THEN [i \in 1..Len(img.pixels) |-> ToTextureColor(SrgbaPixel(img.pixels[i]))]
    ELSE [i \in 1..Len(img.pixels) |-> ToTextureColor(img.pixels[i])]

\* create_temporary_texture: copy_from_slice panics unless the lengths agree
TempPanics(buf, size) == Len(buf) # size[1] * size[2]

TempFails(fail, phase, k) == Fails(fail, phase, "temp", k)

\* new_texture_from_buffer returns Err when the staging texture, CreateTexture or
\* UpdateTexture fails
NewTextureFails(fail, phase, k) ==
    \/ TempFails(fail, phase, k)
    \/ Fails(fail, phase, "CreateTexture", k)
    \/ Fails(fail, phase, "UpdateTexture", k)

\* the first failing call of new_texture_from_buffer
NewTextureFailure(fail, phase, k) ==
    IF TempFails(fail, phase, k) THEN <<"fail", phase, "temp", k>>
    ELSE IF Fails(fail, phase, "CreateTexture", k) THEN <<"fail", phase, "CreateTexture", k>>
    ELSE <<"fail", phase, "UpdateTexture", k>>

\* a handle no live texture has and none had during this call
FreshHandle(s) ==
    LET used == (DOMAIN s.gpu) \cup s.released
    IN  Min({h \in 1..(Cardinality(used) + 1) : h \notin used})

\* dropping an IDirect3DTexture9 releases the device's texture
DropHandle(s, h) ==
    IF h = NoHandle THEN s
    ELSE [s EXCEPT !.gpu = Remove(s.gpu, h),
                   !.released = s.released \cup {h},
                   !.log = Append(s.log, <<"Release", h>>)]

Stop(s, r, entry) == [s EXCEPT !.res = r, !.log = Append(s.log, entry)]

(***************************************************************************)
(* texman.rs : TextureManager.                                             *)
(***************************************************************************)
\* a free that insists on the entry
free_existing(s, tid) ==
    IF tid \in DOMAIN s.textures
    THEN LET h == s.textures[tid].handle
         IN  DropHandle([s EXCEPT !.textures = Remove(s.textures, tid)], h)
    ELSE Stop(s, "panic", <<"panic", "unable to get texture", 0>>)

free(s, tid) ==
    IF tid \in DOMAIN s.textures
    THEN LET h == s.textures[tid].handle
         IN  DropHandle([s EXCEPT !.textures = Remove(s.textures, tid)], h)
    ELSE s

\* new_texture_from_buffer followed by textures.insert
InsertNewTexture(s, tid, pixels, size) ==
    LET h == FreshHandle(s)
        old == IF tid \in DOMAIN s.textures THEN s.textures[tid].handle ELSE NoHandle
        s1 == [s EXCEPT !.gpu = Insert(s.gpu, h, [size |-> size, pixels |-> pixels]),
                        !.log = Append(s.log, <<"CreateTexture", h>>),
                        !.textures = Insert(s.textures, tid,
                                        [handle |-> h, pixels |-> pixels, size |-> size])]
    IN  DropHandle(s1, old)

\* a creation that files the new texture under the User id of the same number
create_retagged(s, fail, k, tid, img) ==
    LET pixels == pixels_from_imagedata(img)
        size == img.size
    IN  IF TempPanics(pixels, size) THEN Stop(s, "panic", <<"panic", "copy_from_slice", k>>)
        ELSE IF NewTextureFails(fail, "set", k)
        THEN Stop(s, "err", NewTextureFailure(fail, "set", k))
        ELSE InsertNewTexture(s, User(tid.id), pixels, size)

create_new_texture(s, fail, k, tid, img) ==
    LET pixels == pixels_from_imagedata(img)
        size == img.size
    IN  IF TempPanics(pixels, size) THEN Stop(s, "panic", <<"panic", "copy_from_slice", k>>)
        ELSE IF NewTextureFails(fail, "set", k)
        THEN Stop(s, "err", NewTextureFailure(fail, "set", k))
        ELSE InsertNewTexture(s, tid, pixels, size)

\* the texture's pixel at column x, row y (0-based), rows of size[1] pixels
PixelIndex(size, x, y) == y * size[1] + x + 1

\* IDirect3DDevice9::UpdateSurface(src, {0, w, 0, h}, dst, {x, y})
UpdateSurface(dst, src, x, y) ==
    [dst EXCEPT !.pixels =
        [i \in 1..Len(dst.pixels) |->
            LET col == (i - 1) % dst.size[1]
                row == (i - 1) \div dst.size[1]
            IN  IF /\ col >= x /\ col < x + src.size[1]
                   /\ row >= y /\ row < y + src.size[2]
                THEN src.pixels[PixelIndex(src.size, col - x, row - y)]
                ELSE dst.pixels[i]]]

\* UpdateSurface rejects a rectangle that does not fit the destination
SurfaceFits(dstSize, srcSize, x, y) ==
    x + srcSize[1] <= dstSize[1] /\ y + srcSize[2] <= dstSize[2]

\* a patch placed with the two coordinates exchanged
update_texture_area_transposed(s, fail, k, tid, img, pos) ==
    LET x == pos[2]
        y == pos[1]
        w == img.size[1]
        h == img.size[2]
        pixels == pixels_from_imagedata(img)
        texture == s.textures[tid]
    IN  IF TempPanics(pixels, <<w, h>>) THEN Stop(s, "panic", <<"panic", "copy_from_slice", k>>)
        ELSE IF TempFails(fail, "set", k) THEN Stop(s, "err", <<"fail", "set", "temp", k>>)
        ELSE IF Fails(fail, "set", "GetSurfaceLevel", k)
        THEN Stop(s, "err", <<"fail", "set", "GetSurfaceLevel", k>>)
        ELSE IF texture.handle = NoHandle
        THEN Stop(s, "panic", <<"panic", "unable to get texture handle", k>>)
        ELSE IF \/ Fails(fail, "set", "UpdateSurface", k)
                \/ ~SurfaceFits(s.gpu[texture.handle].size, <<w, h>>, x, y)
        THEN Stop(s, "err", <<"fail", "set", "UpdateSurface", k>>)
        ELSE [s EXCEPT !.gpu[texture.handle] =
                            UpdateSurface(@, [size |-> <<w, h>>, pixels |-> pixels], x, y),
                       !.log = Append(s.log, <<"UpdateSurface", texture.handle>>)]

update_texture_area(s, fail, k, tid, img, pos) ==
    LET x == pos[1]
        y == pos[2]
        w == img.size[1]
        h == img.size[2]
        pixels == pixels_from_imagedata(img)
        texture == s.textures[tid]
    IN  IF TempPanics(pixels, <<w, h>>) THEN Stop(s, "panic", <<"panic", "copy_from_slice", k>>)
        ELSE IF TempFails(fail, "set", k) THEN Stop(s, "err", <<"fail", "set", "temp", k>>)
        ELSE IF Fails(fail, "set", "GetSurfaceLevel", k)
        THEN Stop(s, "err", <<"fail", "set", "GetSurfaceLevel", k>>)
        ELSE IF texture.handle = NoHandle
        THEN Stop(s, "panic", <<"panic", "unable to get texture handle", k>>)
        ELSE IF \/ Fails(fail, "set", "UpdateSurface", k)
                \/ ~SurfaceFits(s.gpu[texture.handle].size, <<w, h>>, x, y)
        THEN Stop(s, "err", <<"fail", "set", "UpdateSurface", k>>)
        ELSE [s EXCEPT !.gpu[texture.handle] =
                            UpdateSurface(@, [size |-> <<w, h>>, pixels |-> pixels], x, y),
                       !.log = Append(s.log, <<"UpdateSurface", texture.handle>>)]

\* an update that reaches the device's texture but not the cache's pixel store
update_gpu_only(s, fail, k, tid, pixels, size) ==
    LET texture == s.textures[tid]
    IN  IF TempPanics(pixels, size) THEN Stop(s, "panic", <<"panic", "copy_from_slice", k>>)
        ELSE IF TempFails(fail, "set", k) THEN Stop(s, "err", <<"fail", "set", "temp", k>>)
        ELSE IF texture.handle = NoHandle
        THEN Stop(s, "panic", <<"panic", "unable to get texture handle", k>>)
        ELSE IF Fails(fail, "set", "AddDirtyRect", k)
        THEN Stop(s, "err", <<"fail", "set", "AddDirtyRect", k>>)
        ELSE IF Fails(fail, "set", "UpdateTexture", k)
        THEN Stop(s, "err", <<"fail", "set", "UpdateTexture", k>>)
        ELSE [s EXCEPT !.gpu[texture.handle].pixels = pixels,
                       !.log = Append(s.log, <<"UpdateTexture", texture.handle>>)]

\* update_texture_whole, sizes equal: the "perfectly normal update operation"
update_in_place(s, fail, k, tid, pixels, size) ==
    LET texture == s.textures[tid]
    IN  IF TempPanics(pixels, size) THEN Stop(s, "panic", <<"panic", "copy_from_slice", k>>)
        ELSE IF TempFails(fail, "set", k) THEN Stop(s, "err", <<"fail", "set", "temp", k>>)
        ELSE IF texture.handle = NoHandle
        THEN Stop(s, "panic", <<"panic", "unable to get texture handle", k>>)
        ELSE IF Fails(fail, "set", "AddDirtyRect", k)
        THEN Stop(s, "err", <<"fail", "set", "AddDirtyRect", k>>)
        ELSE IF Fails(fail, "set", "UpdateTexture", k)
        THEN Stop(s, "err", <<"fail", "set", "UpdateTexture", k>>)
        ELSE [s EXCEPT !.gpu[texture.handle].pixels = pixels,
                       !.textures[tid].pixels = pixels,
                       !.log = Append(s.log, <<"UpdateTexture", texture.handle>>)]

\* update_texture_whole, size mismatch: free, then a new texture under the same key
recreate_texture(s, fail, k, tid, pixels, size) ==
    LET s1 == free(s, tid)
    IN  IF TempPanics(pixels, size) THEN Stop(s1, "panic", <<"panic", "copy_from_slice", k>>)
        ELSE IF NewTextureFails(fail, "set", k)
        THEN Stop(s1, "err", NewTextureFailure(fail, "set", k))
        ELSE InsertNewTexture(s1, tid, pixels, size)

update_texture_whole(s, fail, k, tid, img) ==
    LET texture == s.textures[tid]
        size == img.size
        pixels == pixels_from_imagedata(img)
    IN  IF size = texture.size
        THEN update_in_place(s, fail, k, tid, pixels, size)
        ELSE recreate_texture(s, fail, k, tid, pixels, size)

\* ImageDelta::is_whole
is_whole(delta) == delta.pos = <<>>

\* a dispatch that never updates: every set delta makes a new texture
always_create(s, fail, k, d) == create_new_texture(s, fail, k, d.tid, d.image)

\* the closure of process_set_deltas' try_for_each
Dispatch(s, fail, k, d) ==
    IF d.tid \in DOMAIN s.textures
    THEN IF is_whole(d)
         THEN update_texture_whole(s, fail, k, d.tid, d.image)
         ELSE update_texture_area(s, fail, k, d.tid, d.image, d.pos)
    ELSE create_new_texture(s, fail, k, d.tid, d.image)

\* one step of the try_for_each, recorded: the delta in the log and, when a whole
\* image went through, the image in uploaded
SetDelta(s, fail, k, d) ==
    LET r == Dispatch([s EXCEPT !.log = Append(s.log, <<"set", d.tid>>)], fail, k, d)
    IN  IF r.res = "run" /\ (is_whole(d) \/ d.tid \notin DOMAIN s.textures)
        THEN [r EXCEPT !.uploaded = Insert(r.uploaded, d.tid, d.image)]
        ELSE r

RECURSIVE SetDeltasFrom(_, _, _, _)
SetDeltasFrom(s, fail, set, k) ==
    IF k > Len(set) \/ s.res # "run" THEN s
    ELSE SetDeltasFrom(SetDelta(s, fail, k, set[k]), fail, set, k + 1)

process_set_deltas(s, fail, delta) == SetDeltasFrom(s, fail, delta.set, 1)

RECURSIVE FreeDeltasFrom(_, _, _)
FreeDeltasFrom(s, fr, k) ==
    IF k > Len(fr) THEN s
    ELSE FreeDeltasFrom(free([s EXCEPT !.log = Append(s.log, <<"free", fr[k]>>)], fr[k]),
                        fr, k + 1)

process_free_deltas(s, delta) == FreeDeltasFrom(s, delta.free, 1)

\* the handles of s.textures in the given order, dropped one by one
RECURSIVE DeallocateFrom(_, _, _)
DeallocateFrom(s, order, k) ==
    IF k > Len(order) THEN s
    ELSE LET tid == order[k]
         IN  IF tid \in DOMAIN s.textures
             THEN DeallocateFrom(
                      DropHandle([s EXCEPT !.textures[tid].handle = NoHandle],
                                 s.textures[tid].handle),
                      order, k + 1)
             ELSE DeallocateFrom(s, order, k + 1)

\* a device-lost step that forgets the entries together with their handles
deallocate_and_clear(s, order) == [DeallocateFrom(s, order, 1) EXCEPT !.textures = <<>>]

deallocate_textures(s, order) == DeallocateFrom(s, order, 1)

\* reallocate_textures: new_texture_from_buffer(..).expect("text") per entry, in the
\* map's iteration order
RECURSIVE ReallocateFrom(_, _, _, _)
ReallocateFrom(s, fail, order, k) ==
    IF k > Len(order) \/ s.res # "run" THEN s
    ELSE LET tid == order[k]
         IN  IF tid \notin DOMAIN s.textures THEN ReallocateFrom(s, fail, order, k + 1)
             ELSE LET t == s.textures[tid]
                  IN  IF TempPanics(t.pixels, t.size)
                      THEN Stop(s, "panic", <<"panic", "copy_from_slice", k>>)
                      ELSE IF NewTextureFails(fail, "reallocate", k)
                      THEN Stop(Stop(s, "panic", NewTextureFailure(fail, "reallocate", k)),
                                "panic", <<"panic", "text", k>>)
                      ELSE ReallocateFrom(InsertNewTexture(s, tid, t.pixels, t.size),
                                          fail, order, k + 1)

reallocate_textures(s, fail, order) == ReallocateFrom(s, fail, order, 1)

(***************************************************************************)
(* mesh.rs (not among the sources) : Buffers and MeshDescriptor, from the  *)
(* specification's Buffer Manager and Geometry Converter.                  *)
(***************************************************************************)
NoBuffers == [vtx |-> FALSE, idx |-> FALSE, vdata |-> <<>>, idata |-> <<>>]

\* Buffers::create_buffers(dev, 16384, 16384)
create_buffers(s, fail) ==
    IF Fails(fail, "reset", "create_buffers", 0)
    THEN Stop(s, "err", <<"fail", "reset", "create_buffers", 0>>)
    ELSE [s EXCEPT !.buffers = [vtx |-> TRUE, idx |-> TRUE, vdata |-> <<>>, idata |-> <<>>],
                   !.log = Append(s.log, <<"create_buffers">>)]

\* Buffers::delete_buffers: releases both buffers, a no-op when already released
delete_buffers(b) == NoBuffers

\* Buffers::update_vertex_buffer: writes the whole array at the start of the buffer
update_vertex_buffer(s, fail) ==
    IF s.res # "run" THEN s
    ELSE IF Fails(fail, "upload", "update_vertex_buffer", 0) \/ ~s.buffers.vtx
    THEN Stop(s, "err", <<"fail", "upload", "update_vertex_buffer", 0>>)
    ELSE [s EXCEPT !.buffers.vdata = s.vertices,
                   !.log = Append(s.log, <<"update_vertex_buffer", Len(s.vertices)>>)]

\* Buffers::update_index_buffer
update_index_buffer(s, fail) ==
    IF s.res # "run" THEN s
    ELSE IF Fails(fail, "upload", "update_index_buffer", 0) \/ ~s.buffers.idx
    THEN Stop(s, "err", <<"fail", "upload", "update_index_buffer", 0>>)
    ELSE [s EXCEPT !.buffers.idata = s.indices,
                   !.log = Append(s.log, <<"update_index_buffer", Len(s.indices)>>)]

\* MeshDescriptor::from_mesh: None for a mesh without vertices or without indices
from_mesh_is_some(mesh) == Len(mesh.verts) > 0 /\ Len(mesh.idxs) > 0

from_mesh(mesh) ==
    [vertices |-> Len(mesh.verts), indices |-> Len(mesh.idxs),
     texture_id |-> mesh.tex, clip |-> mesh.clip]

(***************************************************************************)
(* state.rs : DxState, the device state guard.                             *)
(***************************************************************************)
NoGuard == [armed |-> FALSE]

\* the device calls of setup_state in order, each with the part of the pipeline
\* state it changes
SetupStateCalls ==
    << <<"GetBackBuffer", "">>, <<"CreateRenderTarget", "">>, <<"SetRenderTarget", "rt">>,
       <<"StretchRect", "">>, <<"SetViewport", "sb">>, <<"SetFVF", "sb">>,
       <<"SetTransform", "xf">>, <<"SetRenderState", "sb">>,
       <<"SetTextureStageState", "sb">>, <<"SetSamplerState", "sb">> >>

\* what a call of setup_state leaves in the device: the render target is the new
\* surface, world and view are the identity and the projection is orthographic
Install(d, part) ==
    IF part = "" THEN d
    ELSE IF part = "xf"
    THEN [d EXCEPT !.xf = [world |-> "identity", view |-> "identity", proj |-> "ortho"]]
    ELSE [d EXCEPT ![part] = "overlay"]

RECURSIVE SetupStateFrom(_, _, _)
SetupStateFrom(s, fail, k) ==
    IF k > Len(SetupStateCalls) THEN s
    ELSE LET c == SetupStateCalls[k]
         IN  IF Fails(fail, "setup", c[1], 0)
             THEN [s EXCEPT !.log = Append(s.log, <<"fail", "setup", c[1], 0>>),
                            !.setup_ok = FALSE]
             ELSE SetupStateFrom([s EXCEPT !.dev = Install(s.dev, c[2])], fail, k + 1)

setup_state(s, fail) == SetupStateFrom(s, fail, 1)

\* DxState::setup: the guard exists only when every call succeeded
setup(s, fail) ==
    IF Fails(fail, "setup", "CreateStateBlock", 0)
    THEN [s EXCEPT !.log = Append(s.log, <<"fail", "setup", "CreateStateBlock", 0>>),
                   !.setup_ok = FALSE]
    ELSE LET captured == [armed |-> TRUE, original_state |-> s.dev.sb,
                          original_world |-> s.dev.xf.world,
                          original_view |-> s.dev.xf.view,
                          original_proj |-> s.dev.xf.proj,
                          backbuffer |-> "backbuffer"]
             s1 == setup_state([s EXCEPT !.setup_ok = TRUE], fail)
         IN  IF s1.setup_ok
             THEN [s1 EXCEPT !.guard = captured, !.log = Append(s1.log, <<"setup">>)]
             ELSE s1

\* the device calls of DxState::release in order: the three SetTransform calls carry
\* the number of the transform (world, view, projection)
ReleaseCalls ==
    << <<"SetTransform", 1>>, <<"SetTransform", 2>>, <<"SetTransform", 3>>,
       <<"GetBackBuffer", 0>>, <<"GetRenderTarget", 0>>, <<"StretchRect", 0>>,
       <<"SetRenderTarget", 0>>, <<"Apply", 0>> >>

\* what call k of ReleaseCalls leaves in the device
Restore(s, k) ==
    CASE k = 1 -> [s EXCEPT !.dev.xf.world = s.guard.original_world,
                            !.log = Append(s.log, <<"SetTransform", "world",
                                                    s.guard.original_world>>)]
      [] k = 2 -> [s EXCEPT !.dev.xf.view = s.guard.original_view,
                            !.log = Append(s.log, <<"SetTransform", "view",
                                                    s.guard.original_view>>)]
      [] k = 3 -> [s EXCEPT !.dev.xf.proj = s.guard.original_proj,
                            !.log = Append(s.log, <<"SetTransform", "proj",
                                                    s.guard.original_proj>>)]
      [] k = 6 -> [s EXCEPT !.log = Append(s.log, <<"StretchRect", s.dev.rt, "backbuffer">>)]
      [] k = 7 -> [s EXCEPT !.dev.rt = s.guard.backbuffer,
                            !.log = Append(s.log, <<"SetRenderTarget", s.guard.backbuffer, "">>)]
      [] k = 8 -> [s EXCEPT !.dev.sb = s.guard.original_state,
                            !.log = Append(s.log, <<"Apply", s.guard.original_state, "">>)]
      [] OTHER -> s

\* the calls of ReleaseCalls numbered by order, one after the other; the first
\* failure returns
RECURSIVE ReleaseFrom(_, _, _, _)
ReleaseFrom(s, fail, order, k) ==
    IF k > Len(order) THEN s
    ELSE LET c == ReleaseCalls[order[k]]
         IN  IF Fails(fail, "release", c[1], c[2])
             THEN Stop(s, "err", <<"fail", "release", c[1], c[2]>>)
             ELSE ReleaseFrom(Restore(s, order[k]), fail, order, k + 1)

\* a release that applies the state block before anything else
release_state_block_first(s, fail) == ReleaseFrom(s, fail, <<8, 1, 2, 3, 4, 5, 6, 7>>, 1)

\* DxState::release: the three transforms, the render target, the state block
release(s, fail) == ReleaseFrom(s, fail, <<1, 2, 3, 4, 5, 6, 7, 8>>, 1)

\* a guard that restores only when its scope ends normally: the restore a frame
\* would have if release were called at the end of present instead of in Drop
drop_on_success(s, fail) ==
    IF ~s.guard.armed \/ s.res # "run" THEN s
    ELSE LET r == release(s, fail)
         IN  IF r.res = "err"
             THEN [r EXCEPT !.res = "panic", !.guard = NoGuard,
                            !.log = Append(r.log, <<"panic", "unable to release state", 0>>)]
             ELSE [r EXCEPT !.guard = NoGuard, !.log = Append(r.log, <<"released">>)]

\* Drop for DxState: release().expect("unable to release state"); res is the
\* outcome the guard's scope ends with
drop_DxState(s, fail) ==
    IF ~s.guard.armed THEN s
    ELSE LET r == release([s EXCEPT !.res = "run"], fail)
         IN  IF r.res = "err"
             THEN [r EXCEPT !.res = "panic", !.guard = NoGuard,
                            !.log = Append(r.log, <<"panic", "unable to release state", 0>>)]
             ELSE [r EXCEPT !.res = s.res, !.guard = NoGuard,
                            !.log = Append(r.log, <<"released">>)]

(***************************************************************************)
(* lib.rs : the clipboard.                                                 *)
(***************************************************************************)
\* set_clipboard_text / get_clipboard_text: the context is created on first use;
\* clip is what the OS does: "ok", "new_fails" or "op_fails"
clipboard_after(slot, clip) == IF slot THEN TRUE ELSE clip # "new_fails"

clipboard_result(slot, clip) ==
    IF ~slot /\ clip = "new_fails" THEN "err"
    ELSE IF clip = "op_fails" THEN "err" ELSE "ok"

\* the threads of the process and where each stands in its clipboard call: "idle",
\* "lock" (at CLIPBOARD.lock()), "check" (at ctx.is_none()), "new" (at
\* ClipboardContext::new()), "op" (at get_contents / set_contents); owner is the
\* thread that holds the mutex (0: none), created counts the contexts created
Threads == 1..MaxThreads

NoThreads ==
    [pc |-> [t \in Threads |-> "idle"], fn |-> [t \in Threads |-> "none"],
     result |-> [t \in Threads |-> "none"], owner |-> 0, created |-> 0, failed |-> FALSE]

\* a mutex that lets every thread in
lock_always_available(c) == TRUE

\* Mutex::lock returns once no thread holds the mutex
lock_available(c) == c.owner = 0

(***************************************************************************)
(* inputman.rs : InputManager.                                             *)
(***************************************************************************)
\* a collect_input that copies the pending events and leaves them queued
collect_and_keep(s, fail) ==
    IF Fails(fail, "run", "GetClientRect", 0)
    THEN Stop(s, "panic", <<"panic", "Failed to GetClientRect()", 0>>)
    ELSE [s EXCEPT !.log = Append(s.log, <<"run", s.events>>)]

\* InputManager::collect_input: std::mem::take(&mut self.events); get_screen_rect
\* panics when GetClientRect fails
collect_input(s, fail) ==
    IF Fails(fail, "run", "GetClientRect", 0)
    THEN Stop(s, "panic", <<"panic", "Failed to GetClientRect()", 0>>)
    ELSE [s EXCEPT !.events = <<>>,
                   !.log = Append(s.log, <<"run", s.events>>)]

(***************************************************************************)
(* app.rs : EguiDx9::present.                                              *)
(***************************************************************************)
textures_delta_is_empty(delta) == delta.set = <<>> /\ delta.free = <<>>

\* a reset step that recreates the buffers and leaves the textures without handles
reset_buffers_only(s, in) ==
    IF ~s.should_reset THEN s ELSE create_buffers(s, in.fail)

\* a reset step that gives up the pending reset when the buffers cannot be created
reset_forgotten_on_failure(s, in) ==
    IF ~s.should_reset THEN s
    ELSE LET s1 == create_buffers(s, in.fail)
         IN  IF s1.res # "run" THEN [s1 EXCEPT !.should_reset = FALSE]
             ELSE reallocate_textures(s1, in.fail, in.order)

\* lines 88-91: the buffers and the textures are recreated after a reset
ResetStep(s, in) ==
    IF ~s.should_reset THEN s
    ELSE LET s1 == create_buffers(s, in.fail)
         IN  IF s1.res # "run" THEN s1 ELSE reallocate_textures(s1, in.fail, in.order)

\* a run step that clears the pending reset without asking for a repaint
run_without_request(s, in) ==
    IF s.res # "run" THEN s
    ELSE LET s1 == collect_input(s, in.fail)
         IN  IF s1.res # "run" THEN s1
             ELSE [s1 EXCEPT !.repaint = in.output.repaint, !.should_reset = FALSE]

\* lines 93-101: the toolkit runs on the pending input; a reset forces a repaint
RunStep(s, in) ==
    IF s.res # "run" THEN s
    ELSE LET s1 == collect_input(s, in.fail)
         IN  IF s1.res # "run" THEN s1
             ELSE [s1 EXCEPT !.repaint = in.output.repaint \/ s.should_reset,
                             !.should_reset = FALSE]

\* lines 103-106
SetStep(s, in) ==
    IF s.res # "run" \/ textures_delta_is_empty(in.output.textures_delta) THEN s
    ELSE process_set_deltas(s, in.fail, in.output.textures_delta)

\* a copy step that returns the clipboard's error
copy_or_fail(s, in) ==
    IF s.res # "run" \/ ~in.output.copied_text THEN s
    ELSE LET r == clipboard_result(s.clipboard, in.clip)
             s1 == [s EXCEPT !.clipboard = clipboard_after(s.clipboard, in.clip),
                             !.log = Append(s.log, <<"set_clipboard_text", r>>)]
         IN  IF r = "err" THEN [s1 EXCEPT !.res = "err"] ELSE s1

\* lines 108-110: the clipboard's result is dropped
CopyStep(s, in) ==
    IF s.res # "run" \/ ~in.output.copied_text THEN s
    ELSE [s EXCEPT !.clipboard = clipboard_after(s.clipboard, in.clip),
                   !.log = Append(s.log, <<"set_clipboard_text",
                                           clipboard_result(s.clipboard, in.clip)>>)]

\* lines 213-215 and 114-116
FreeStep(s, in) ==
    IF s.res # "run" \/ textures_delta_is_empty(in.output.textures_delta) THEN s
    ELSE process_free_deltas(s, in.output.textures_delta)

\* a filter_map that drops what is not a mesh
RECURSIVE tessellate_skipping(_, _, _, _)
tessellate_skipping(s, t, shapes, k) ==
    IF k > Len(shapes) THEN [s EXCEPT !.prims = t]
    ELSE LET prim == shapes[k]
         IN  IF prim.kind = "Mesh" /\ from_mesh_is_some(prim)
             THEN tessellate_skipping([s EXCEPT !.vertices = s.vertices \o prim.verts,
                                                !.indices = s.indices \o prim.idxs],
                                      Append(t, from_mesh(prim)), shapes, k + 1)
             ELSE tessellate_skipping(s, t, shapes, k + 1)

\* lines 126-148: the filter_map over the tessellated primitives; t holds the
\* descriptors collected so far
RECURSIVE TessellateFrom(_, _, _, _)
TessellateFrom(s, t, shapes, k) ==
    IF k > Len(shapes) THEN [s EXCEPT !.prims = t]
    ELSE LET prim == shapes[k]
         IN  IF prim.kind # "Mesh"
             THEN Stop(s, "panic", <<"panic", "paint callbacks not supported", k>>)
             ELSE IF from_mesh_is_some(prim)
             THEN TessellateFrom([s EXCEPT !.vertices = s.vertices \o prim.verts,
                                           !.indices = s.indices \o prim.idxs],
                                 Append(t, from_mesh(prim)), shapes, k + 1)
             ELSE TessellateFrom(s, t, shapes, k + 1)

\* an upload step that appends the frame's geometry to what the arrays hold
upload_appending(s, in) ==
    IF s.res # "run" \/ ~(s.repaint \/ ~s.reactive) THEN s
    ELSE LET s1 == [s EXCEPT !.log = Append(s.log, <<"tessellate">>)]
             s2 == TessellateFrom(s1, <<>>, in.output.shapes, 1)
         IN  update_index_buffer(update_vertex_buffer(s2, in.fail), in.fail)

\* an upload step that retessellates every frame
upload_always(s, in) ==
    IF s.res # "run" THEN s
    ELSE LET s1 == [s EXCEPT !.vertices = <<>>, !.indices = <<>>,
                             !.log = Append(s.log, <<"tessellate">>)]
             s2 == TessellateFrom(s1, <<>>, in.output.shapes, 1)
         IN  update_index_buffer(update_vertex_buffer(s2, in.fail), in.fail)

\* lines 120-155
UploadStep(s, in) ==
    IF s.res # "run" \/ ~(s.repaint \/ ~s.reactive) THEN s
    ELSE LET s1 == [s EXCEPT !.vertices = <<>>, !.indices = <<>>,
                             !.log = Append(s.log, <<"tessellate">>)]
             s2 == TessellateFrom(s1, <<>>, in.output.shapes, 1)
         IN  update_index_buffer(update_vertex_buffer(s2, in.fail), in.fail)

\* a guard step that arms a second guard over the first
guard_step_rearming(s, in) ==
    IF s.res # "run" THEN s
    ELSE IF Fails(in.fail, "setup", "GetClientRect", 0)
    THEN Stop(s, "panic", <<"panic", "Failed to GetClientRect()", 0>>)
    ELSE setup(setup(s, in.fail), in.fail)

\* line 160: get_viewport panics when GetClientRect fails; the Result of
\* DxState::setup is bound to _state and never inspected
GuardStep(s, in) ==
    IF s.res # "run" THEN s
    ELSE IF Fails(in.fail, "setup", "GetClientRect", 0)
    THEN Stop(s, "panic", <<"panic", "Failed to GetClientRect()", 0>>)
    ELSE setup(s, in.fail)

\* lines 162-179
BindStep(s, in) ==
    IF s.res # "run" THEN s
    ELSE IF ~s.buffers.vtx THEN Stop(s, "panic", <<"panic", "unable to get vertex buffer", 0>>)
    ELSE IF Fails(in.fail, "bind", "SetStreamSource", 0)
    THEN Stop(s, "err", <<"fail", "bind", "SetStreamSource", 0>>)
    ELSE LET s1 == [s EXCEPT !.dev.sb = "overlay",
                             !.log = Append(s.log, <<"SetStreamSource">>)]
         IN  IF ~s.buffers.idx
             THEN Stop(s1, "panic", <<"panic", "unable to get index buffer", 0>>)
             ELSE IF Fails(in.fail, "bind", "SetIndices", 0)
             THEN Stop(s1, "err", <<"fail", "bind", "SetIndices", 0>>)
             ELSE [s1 EXCEPT !.log = Append(s1.log, <<"SetIndices">>)]

\* TextureManager::get_by_id and UIHandler::resolve_user_texture: is there a texture
TextureResolves(s, in, tid) ==
    IF tid.tag = "Managed"
    THEN tid \in DOMAIN s.textures /\ s.textures[tid].handle # NoHandle
    ELSE tid.id \in in.user_textures

\* the handle bound by SetTexture: a cache handle, or NoHandle for the host's own
ResolvedHandle(s, tid) ==
    IF tid.tag = "Managed" THEN s.textures[tid].handle ELSE NoHandle

\* an iteration that leaves out a mesh whose texture it cannot find
draw_mesh_or_skip(s, in, k, our_vtx_idx, our_idx_idx) ==
    LET mesh == s.prims[k]
    IN  IF Fails(in.fail, "draw", "SetScissorRect", k)
        THEN Stop(s, "err", <<"fail", "draw", "SetScissorRect", k>>)
        ELSE LET s1 == [s EXCEPT !.dev.sb = "overlay",
                                 !.log = Append(s.log, <<"SetScissorRect", mesh.clip>>)]
             IN  IF ~TextureResolves(s1, in, mesh.texture_id) THEN s1
                 ELSE IF Fails(in.fail, "draw", "SetTexture", k)
                 THEN Stop(s1, "err", <<"fail", "draw", "SetTexture", k>>)
                 ELSE LET h == ResolvedHandle(s1, mesh.texture_id)
                          s2 == [s1 EXCEPT !.log = Append(s1.log,
                                                <<"SetTexture", mesh.texture_id, h>>)]
                      IN  IF Fails(in.fail, "draw", "DrawIndexedPrimitive", k)
                          THEN Stop(s2, "err", <<"fail", "draw", "DrawIndexedPrimitive", k>>)
                          ELSE [s2 EXCEPT !.log = Append(s2.log,
                                    <<"DrawIndexedPrimitive", our_vtx_idx, mesh.vertices,
                                      our_idx_idx, mesh.indices \div 3, mesh.texture_id, h>>)]

\* lines 184-211: one iteration of the draw loop's try_for_each
DrawMesh(s, in, k, our_vtx_idx, our_idx_idx) ==
    LET mesh == s.prims[k]
    IN  IF Fails(in.fail, "draw", "SetScissorRect", k)
        THEN Stop(s, "err", <<"fail", "draw", "SetScissorRect", k>>)
        ELSE LET s1 == [s EXCEPT !.dev.sb = "overlay",
                                 !.log = Append(s.log, <<"SetScissorRect", mesh.clip>>)]
             IN  IF ~TextureResolves(s1, in, mesh.texture_id)
                 THEN Stop(s1, "panic", <<"panic", "unable to retrieve texture", k>>)
                 ELSE IF Fails(in.fail, "draw", "SetTexture", k)
                 THEN Stop(s1, "err", <<"fail", "draw", "SetTexture", k>>)
                 ELSE LET h == ResolvedHandle(s1, mesh.texture_id)
                          s2 == [s1 EXCEPT !.log = Append(s1.log,
                                                <<"SetTexture", mesh.texture_id, h>>)]
                      IN  IF Fails(in.fail, "draw", "DrawIndexedPrimitive", k)
                          THEN Stop(s2, "err", <<"fail", "draw", "DrawIndexedPrimitive", k>>)
                          ELSE [s2 EXCEPT !.log = Append(s2.log,
                                    <<"DrawIndexedPrimitive", our_vtx_idx, mesh.vertices,
                                      our_idx_idx, mesh.indices \div 3, mesh.texture_id, h>>)]

\* a draw loop that never advances its base vertex
RECURSIVE draw_from_fixed_base(_, _, _, _, _)
draw_from_fixed_base(s, in, k, our_vtx_idx, our_idx_idx) ==
    IF k > Len(s.prims) \/ s.res # "run" THEN s
    ELSE draw_from_fixed_base(DrawMesh(s, in, k, our_vtx_idx, our_idx_idx), in, k + 1,
                              our_vtx_idx, our_idx_idx + s.prims[k].indices)

RECURSIVE DrawFrom(_, _, _, _, _)
DrawFrom(s, in, k, our_vtx_idx, our_idx_idx) ==
    IF k > Len(s.prims) \/ s.res # "run" THEN s
    ELSE DrawFrom(DrawMesh(s, in, k, our_vtx_idx, our_idx_idx), in, k + 1,
                  our_vtx_idx + s.prims[k].vertices, our_idx_idx + s.prims[k].indices)

\* a draw loop that applies the frame's free deltas before it draws
free_then_draw(s, in) == DrawFrom(FreeStep(s, in), in, 1, 0, 0)

DrawStep(s, in) == DrawFrom(s, in, 1, 0, 0)

\* Ok(()) at the end of a path that ran through
Return(s) == IF s.res = "run" THEN [s EXCEPT !.res = "ok"] ELSE s

\* lines 83-218.  _state lives to the end of the function body: it is dropped after
\* the free deltas on the way out with Ok, and on the way out of every `?` and panic
\* a frame that goes through tessellation, guard and draw loop whatever the shapes
run_frame_without_early_return(s, in) ==
    LET s1 == CopyStep(SetStep(RunStep(ResetStep(s, in), in), in), in)
    IN  IF s1.res # "run" THEN s1
        ELSE LET s2 == UploadStep(s1, in)
                 s3 == DrawStep(BindStep(GuardStep(s2, in), in), in)
             IN  Return(drop_DxState(FreeStep(s3, in), in.fail))

\* a frame that lets the guard go before it applies the free deltas
run_frame_restoring_first(s, in) ==
    LET s1 == CopyStep(SetStep(RunStep(ResetStep(s, in), in), in), in)
    IN  IF s1.res # "run" THEN s1
        ELSE IF in.output.shapes = <<>> THEN Return(FreeStep(s1, in))
        ELSE LET s2 == UploadStep(s1, in)
                 s3 == DrawStep(BindStep(GuardStep(s2, in), in), in)
             IN  Return(FreeStep(drop_DxState(s3, in.fail), in))

RunFrame(s, in) ==
    LET s1 == CopyStep(SetStep(RunStep(ResetStep(s, in), in), in), in)
    IN  IF s1.res # "run" THEN s1
        ELSE IF in.output.shapes = <<>> THEN Return(FreeStep(s1, in))
        ELSE LET s2 == UploadStep(s1, in)
                 s3 == DrawStep(BindStep(GuardStep(s2, in), in), in)
             IN  Return(drop_DxState(FreeStep(s3, in), in.fail))

\* a present that does not look at the cooperative level's answer
present_unconditional(s, in) ==
    RunFrame([s EXCEPT !.log = Append(s.log, <<"TestCooperativeLevel", in.operational>>)], in)

\* lines 84-86: a device that is not operational skips the frame
present(s, in) ==
    LET s0 == [s EXCEPT !.log = Append(s.log, <<"TestCooperativeLevel", in.operational>>)]
    IN  IF ~in.operational THEN Return(s0) ELSE RunFrame(s0, in)

(***************************************************************************)
(* inputman.rs : InputManager::process, for the messages of the model.     *)
(***************************************************************************)
\* get_mouse_modifiers / get_key_modifiers
Modifiers(ctrl) == [ctrl |-> ctrl]

\* the events process appends for one window message and the classification it
\* returns; paste is the Result of get_clipboard_text
process_events(msg, paste) ==
    CASE msg.umsg = "WM_MOUSEMOVE" -> <<"PointerMoved">>
      [] msg.umsg = "WM_LBUTTONDOWN" -> <<"PointerButton">>
      [] msg.umsg = "WM_CHAR" -> IF msg.control THEN <<>> ELSE <<"Text">>
      [] msg.umsg = "WM_KEYDOWN" ->
            IF msg.key = "none" THEN <<>>
            ELSE (IF msg.key = "V" /\ msg.ctrl /\ paste = "ok" THEN <<"Text">> ELSE <<>>)
                 \o (IF msg.key = "C" /\ msg.ctrl THEN <<"Copy">> ELSE <<>>)
                 \o (IF msg.key = "X" /\ msg.ctrl THEN <<"Cut">> ELSE <<>>)
                 \o <<"Key">>
      [] OTHER -> <<>>

process_result(msg) ==
    CASE msg.umsg = "WM_MOUSEMOVE" -> "MouseMove"
      [] msg.umsg = "WM_LBUTTONDOWN" -> "MouseLeft"
      [] msg.umsg = "WM_CHAR" -> "Character"
      [] msg.umsg = "WM_KEYDOWN" -> "Key"
      [] OTHER -> "Unknown"

\* alter_modifiers replaces the modifiers only once a key message has set them
process_modifiers(old, msg) ==
    CASE msg.umsg \in {"WM_MOUSEMOVE", "WM_LBUTTONDOWN"} ->
            IF old = <<>> THEN old ELSE <<Modifiers(msg.ctrl)>>
      [] msg.umsg = "WM_KEYDOWN" -> <<Modifiers(msg.ctrl)>>
      [] OTHER -> old

\* does process call get_clipboard_text
process_pastes(msg) == msg.umsg = "WM_KEYDOWN" /\ msg.key = "V" /\ msg.ctrl

(***************************************************************************)
(* The state of the program as one record, and the recorded call.          *)
(***************************************************************************)
Core ==
    [reactive |-> reactive, should_reset |-> should_reset, textures |-> textures,
     gpu |-> gpu, buffers |-> buffers, prims |-> prims, vertices |-> vertices,
     indices |-> indices, events |-> events, modifiers |-> modifiers,
     clipboard |-> clipboard, dev |-> dev]

\* the state a handler works on: the program's, the guard of the running frame,
\* the handles released by this call, the calls made so far and the outcome
Machine ==
    [reactive |-> reactive, should_reset |-> should_reset, textures |-> textures,
     gpu |-> gpu, buffers |-> buffers, prims |-> prims, vertices |-> vertices,
     indices |-> indices, events |-> events, modifiers |-> modifiers,
     clipboard |-> clipboard, dev |-> dev,
     guard |-> NoGuard, setup_ok |-> FALSE, repaint |-> FALSE,
     released |-> {}, log |-> <<>>, res |-> "run", uploaded |-> uploaded]

Commit(name, in, s) ==
    /\ reactive' = s.reactive
    /\ should_reset' = s.should_reset
    /\ textures' = s.textures
    /\ gpu' = s.gpu
    /\ buffers' = s.buffers
    /\ prims' = s.prims
    /\ vertices' = s.vertices
    /\ indices' = s.indices
    /\ events' = s.events
    /\ modifiers' = s.modifiers
    /\ clipboard' = s.clipboard
    /\ dev' = s.dev
    /\ op' = name
    /\ arg' = in
    /\ res' = s.res
    /\ log' = s.log
    /\ pre' = Core
    /\ uploaded' = [tid \in (DOMAIN s.uploaded) \cap (DOMAIN s.textures) |-> s.uploaded[tid]]
    /\ UNCHANGED threads

(***************************************************************************)
(* The inputs of the model.                                                *)
(***************************************************************************)
M1 == Managed(1)
M2 == Managed(2)
U1 == User(1)


ColorImage(w, h, c) == [kind |-> "Color", size |-> <<w, h>>, pixels |-> [i \in 1..(w * h) |-> c]]
FontImage(w, h, a) == [kind |-> "Font", size |-> <<w, h>>, pixels |-> [i \in 1..(w * h) |-> a]]

Whole(tid, img) == [tid |-> tid, image |-> img, pos |-> <<>>]
Patch(tid, img, x, y) == [tid |-> tid, image |-> img, pos |-> <<x, y>>]

MeshA == [kind |-> "Mesh", verts |-> <<1, 2, 3>>, idxs |-> <<0, 1, 2>>,
          tex |-> M1, clip |-> "clipA"]
MeshB == [kind |-> "Mesh", verts |-> <<4, 5, 6, 7>>, idxs |-> <<0, 1, 2, 2, 3, 0>>,
          tex |-> M2, clip |-> "clipB"]
MeshU == [kind |-> "Mesh", verts |-> <<8, 9, 10>>, idxs |-> <<0, 1, 2>>,
          tex |-> U1, clip |-> "clipU"]
MeshEmpty == [kind |-> "Mesh", verts |-> <<>>, idxs |-> <<>>, tex |-> M1, clip |-> "clipE"]
Callback == [kind |-> "Callback"]

NoDelta == [set |-> <<>>, free |-> <<>>]

Output(delta, shapes, repaint, copied) ==
    [textures_delta |-> delta, shapes |-> shapes, repaint |-> repaint, copied_text |-> copied]

Frame(output, fail) ==
    [operational |-> TRUE, output |-> output, fail |-> fail, order |-> <<M1, M2>>,
     clip |-> "ok", user_textures |-> {}]

\* the frame of a device that is not operational: the toolkit is never asked
SkippedFrame ==
    [operational |-> FALSE, output |-> Output(NoDelta, <<>>, FALSE, FALSE), fail |-> {},
     order |-> <<M1, M2>>, clip |-> "ok", user_textures |-> {}]

\* the frames of the orchestrator's specification: one-pixel images, up to
\* MaxPrims meshes
MaxPrims == 2

Pixel == ColorImage(1, 1, <<10, 20, 30, 40>>)

SetLists == {<<>>, <<Whole(M1, Pixel)>>, <<Whole(M2, Pixel)>>,
             <<Whole(M1, Pixel), Whole(M2, Pixel)>>}
FreeLists == {<<>>, <<M1>>, <<M2>>}
Deltas == [set : SetLists, free : FreeLists]

\* MeshA, MeshB, MeshA, ... : n meshes
ShapeList(n) == [i \in 1..n |-> IF i % 2 = 1 THEN MeshA ELSE MeshB]
ShapeLists == {ShapeList(n) : n \in 0..MaxPrims}

SetupFails == {<<"setup", "CreateStateBlock", 0>>, <<"setup", "SetRenderState", 0>>}
BindFails == {<<"bind", "SetStreamSource", 0>>, <<"bind", "SetIndices", 0>>}
DrawFails == {<<"draw", c, k>> : c \in {"SetScissorRect", "SetTexture", "DrawIndexedPrimitive"},
                                 k \in 1..MaxPrims}
ReleaseFails == {<<"release", "SetTransform", 1>>, <<"release", "SetRenderTarget", 0>>,
                 <<"release", "Apply", 0>>}
OtherFails == {<<"reset", "create_buffers", 0>>,
               <<"reallocate", "CreateTexture", 1>>, <<"reallocate", "UpdateTexture", 2>>,
               <<"set", "temp", 1>>, <<"set", "UpdateTexture", 2>>,
               <<"upload", "update_vertex_buffer", 0>>, <<"upload", "update_index_buffer", 0>>,
               <<"run", "GetClientRect", 0>>, <<"setup", "GetClientRect", 0>>}

\* what may fail in one frame: one call, or a call after a failure the frame
\* survives (a failed setup), or the guard's release after a failed draw
FailSets ==
    {{f} : f \in SetupFails \cup BindFails \cup DrawFails \cup ReleaseFails \cup OtherFails}
    \cup {{f, g} : f \in SetupFails,
                   g \in {<<"draw", "SetTexture", 1>>,
                          <<"draw", "DrawIndexedPrimitive", MaxPrims>>}}
    \cup {{f, g} : f \in {<<"bind", "SetStreamSource", 0>>,
                          <<"draw", "DrawIndexedPrimitive", 1>>},
                   g \in ReleaseFails}

SetAndFree == [set |-> <<Whole(M1, Pixel)>>, free |-> <<M1>>]

Frames ==
    {SkippedFrame}
    \cup {Frame(Output(d, sh, rp, FALSE), {}) :
            d \in Deltas, sh \in ShapeLists, rp \in BOOLEAN}
    \cup {Frame(Output(d, ShapeList(MaxPrims), TRUE, FALSE), f) :
            d \in {NoDelta, SetAndFree}, f \in FailSets}
    \cup {Frame(Output([set |-> <<Whole(M1, Pixel), Whole(M2, Pixel)>>, free |-> <<M2>>],
                       <<MeshA>>, TRUE, FALSE), {<<"set", "UpdateTexture", 2>>})}
    \cup {[Frame(Output(NoDelta, <<>>, FALSE, FALSE), {<<"reallocate", "CreateTexture", 1>>})
             EXCEPT !.order = <<M2, M1>>]}
    \cup {Frame(Output(NoDelta, sh, TRUE, FALSE), {}) :
            sh \in {<<Callback>>, <<MeshA, Callback>>, <<MeshEmpty, MeshA>>}}
    \cup {[Frame(Output(NoDelta, <<MeshU>>, TRUE, FALSE), {}) EXCEPT !.user_textures = u] :
            u \in {{}, {1}}}

\* the frames of the texture cache's specification: one texture of up to MaxDim by
\* MaxDim pixels, uploaded whole in either colour and patched in the second; no shapes
PatchColor == <<50, 60, 70, 80>>

WholeImages ==
    {ColorImage(w, h, c) : w \in 1..MaxDim, h \in 1..MaxDim, c \in Colors}
    \cup {FontImage(1, 1, 1)}

SetDeltas ==
    {Whole(M1, img) : img \in WholeImages}
    \cup {Patch(M1, ColorImage(pos[3], pos[4], PatchColor), pos[1], pos[2]) :
            pos \in {q \in (0..(MaxDim - 1)) \X (0..(MaxDim - 1)) \X (1..MaxDim) \X (1..MaxDim) :
                        q[1] + q[3] <= MaxDim /\ q[2] + q[4] <= MaxDim}}

SetFails == {<<"set", c, 1>> : c \in {"temp", "CreateTexture", "UpdateTexture",
                                     "AddDirtyRect", "GetSurfaceLevel", "UpdateSurface"}}

TexFrames ==
    {Frame(Output([set |-> s, free |-> f], <<>>, FALSE, FALSE), {}) :
        s \in {<<>>} \cup {<<d>> : d \in SetDeltas}, f \in FreeLists}
    \cup {Frame(Output([set |-> <<d>>, free |-> <<>>], <<>>, FALSE, FALSE), {f}) :
            d \in SetDeltas, f \in SetFails}
    \cup {Frame(Output(NoDelta, <<>>, FALSE, FALSE), {f}) :
            f \in {<<"reset", "create_buffers", 0>>, <<"reallocate", "CreateTexture", 1>>}}

Messages == {[umsg |-> "WM_MOUSEMOVE", ctrl |-> FALSE]}

\* the inputs of the input path's specification: a mouse move, Ctrl+V, Ctrl+C and a
\* key that get_key does not know, up to MaxQueue pending events, every answer of
\* the clipboard; frames that are skipped, fail in the reset step, or run with or
\* without copied text, shapes and free deltas
MaxQueue == 3

KeyDown(key, ctrl) == [umsg |-> "WM_KEYDOWN", ctrl |-> ctrl, key |-> key, control |-> FALSE]

InputMessages ==
    {[umsg |-> "WM_MOUSEMOVE", ctrl |-> FALSE, key |-> "none", control |-> FALSE],
     KeyDown("V", TRUE), KeyDown("C", TRUE), KeyDown("none", FALSE)}

ClipboardAnswers == {"ok", "new_fails", "op_fails"}

InputFrames ==
    {SkippedFrame,
     Frame(Output(NoDelta, <<>>, FALSE, FALSE), {}),
     Frame(Output(NoDelta, <<>>, FALSE, FALSE), {<<"reset", "create_buffers", 0>>})}
    \cup {[Frame(Output([set |-> <<>>, free |-> <<M2>>], sh, TRUE, TRUE), {})
             EXCEPT !.clip = c, !.user_textures = {1}] :
            c \in ClipboardAnswers, sh \in {<<>>, <<MeshU>>}}

(***************************************************************************)
(* The operations.                                                         *)
(***************************************************************************)
\* EguiDx9::init: the buffers exist (init panics otherwise), nothing is cached;
\* the host's render target is the back buffer or a surface of its own
Init ==
    /\ reactive \in BOOLEAN
    /\ should_reset = FALSE
    /\ textures = <<>>
    /\ gpu = <<>>
    /\ buffers = [vtx |-> TRUE, idx |-> TRUE, vdata |-> <<>>, idata |-> <<>>]
    /\ prims = <<>>
    /\ vertices = <<>>
    /\ indices = <<>>
    /\ events = <<>>
    /\ modifiers = <<>>
    /\ clipboard = FALSE
    /\ dev \in [xf : {[world |-> "hostW", view |-> "hostV", proj |-> "hostP"]},
                 rt : {"backbuffer", "offscreen"}, sb : {"host"}]
    /\ op = "idle"
    /\ arg = <<>>
    /\ res = "ok"
    /\ log = <<>>
    /\ pre = <<>>
    /\ uploaded = <<>>
    /\ threads = NoThreads

\* EguiDx9::present
Present(in) ==
    /\ op = "idle"
    /\ Commit("present", in, present(Machine, in))

\* a pre_reset that flips the pending-reset flag instead of setting it
pre_reset_flipping(s) ==
    LET s1 == [s EXCEPT !.buffers = delete_buffers(s.buffers),
                        !.log = Append(s.log, <<"delete_buffers">>)]
        s2 == deallocate_textures(s1, <<M1, M2, U1>>)
    IN  [s2 EXCEPT !.should_reset = ~s.should_reset, !.res = "ok"]

\* EguiDx9::pre_reset
pre_reset(s) ==
    LET s1 == [s EXCEPT !.buffers = delete_buffers(s.buffers),
                        !.log = Append(s.log, <<"delete_buffers">>)]
        s2 == deallocate_textures(s1, <<M1, M2, U1>>)
    IN  [s2 EXCEPT !.should_reset = TRUE, !.res = "ok"]

PreReset ==
    /\ op = "idle"
    /\ Commit("pre_reset", <<>>, pre_reset(Machine))

\* EguiDx9::wnd_proc: InputManager::process(umsg, wparam, lparam)
wnd_proc(s, msg, paste) ==
    LET new == process_events(msg, paste.clip)
    IN  [s EXCEPT !.events = s.events \o new,
                  !.modifiers = process_modifiers(s.modifiers, msg),
                  !.clipboard = IF process_pastes(msg)
                                THEN clipboard_after(s.clipboard, paste.clip)
                                ELSE s.clipboard,
                  !.log = <<<<"process", process_result(msg)>>>>,
                  !.res = "ok"]

\* a window message that arrives while at most max events are pending
Process(msg, paste, max) ==
    /\ op = "idle"
    /\ Len(events) + Len(process_events(msg, paste.clip)) <= max
    /\ Commit("wnd_proc", [msg |-> msg, clip |-> paste.clip], wnd_proc(Machine, msg, paste))

WndProc(msg, paste) == Process(msg, paste, MaxEvents)

\* Drop for EguiDx9
drop_EguiDx9(s) ==
    LET s1 == [s EXCEPT !.buffers = delete_buffers(s.buffers),
                        !.log = Append(s.log, <<"delete_buffers">>)]
    IN  [deallocate_textures(s1, <<M1, M2, U1>>) EXCEPT !.res = "ok"]

Teardown ==
    /\ op = "idle"
    /\ Commit("drop", <<>>, drop_EguiDx9(Machine))

\* the host takes the result; after a panic or the drop there is no next call
HostReturn ==
    /\ op \notin {"idle", "drop"}
    /\ res # "panic"
    /\ op' = "idle"
    /\ arg' = <<>>
    /\ res' = "ok"
    /\ log' = <<>>
    /\ pre' = <<>>
    /\ UNCHANGED <<reactive, should_reset, textures, gpu, buffers, prims, vertices,
                   indices, events, modifiers, clipboard, dev, uploaded, threads>>

\* what the clipboard functions leave alone
backend == <<reactive, should_reset, textures, gpu, buffers, prims, vertices, indices,
             events, modifiers, dev, op, arg, res, log, pre, uploaded>>

\* a thread enters get_clipboard_text ("get") or set_clipboard_text ("set")
Call(t, f) ==
    /\ threads.pc[t] = "idle"
    /\ threads' = [threads EXCEPT !.pc[t] = "lock", !.fn[t] = f, !.result[t] = "none"]
    /\ UNCHANGED <<backend, clipboard>>

\* let mut ctx = CLIPBOARD.lock().unwrap()
Acquire(t) ==
    /\ threads.pc[t] = "lock"
    /\ lock_available(threads)
    /\ threads' = [threads EXCEPT !.pc[t] = "check", !.owner = t]
    /\ UNCHANGED <<backend, clipboard>>

\* if ctx.is_none()
IsNone(t) ==
    /\ threads.pc[t] = "check"
    /\ threads' = [threads EXCEPT !.pc[t] = IF clipboard THEN "op" ELSE "new"]
    /\ UNCHANGED <<backend, clipboard>>

\* *ctx = Some(ClipboardContext::new()?): on Err the function returns and the
\* MutexGuard is dropped
New(t, ok) ==
    /\ threads.pc[t] = "new"
    /\ IF ok
       THEN /\ clipboard' = TRUE
            /\ threads' = [threads EXCEPT !.pc[t] = "op", !.created = @ + 1]
       ELSE /\ clipboard' = clipboard
            /\ threads' = [threads EXCEPT !.pc[t] = "idle", !.result[t] = "err",
                                          !.failed = TRUE, !.owner = 0]
    /\ UNCHANGED backend

\* ctx.as_mut().unwrap().get_contents() / set_contents(s); the MutexGuard is dropped
\* on return
Contents(t, ok) ==
    /\ threads.pc[t] = "op"
    /\ threads' = [threads EXCEPT !.pc[t] = "idle", !.owner = 0,
                                  !.result[t] = IF ~clipboard THEN "panic"
                                                ELSE IF ok THEN "ok" ELSE "err"]
    /\ UNCHANGED <<backend, clipboard>>

Next ==
    \/ \E in \in Frames : Present(in)
    \/ PreReset
    \/ \E msg \in Messages : WndProc(msg, [clip |-> "ok"])
    \/ Teardown
    \/ HostReturn

Spec == Init /\ [][Next]_vars

\* the texture cache alone: frames without shapes, and resets
InitTex == Init /\ ~reactive /\ dev.rt = "backbuffer"

NextTex ==
    \/ \E in \in TexFrames : Present(in)
    \/ PreReset
    \/ HostReturn

SpecTex == InitTex /\ [][NextTex]_vars

\* the input path: window messages between frames
NextInput ==
    \/ \E in \in InputFrames : Present(in)
    \/ \E msg \in InputMessages, c \in ClipboardAnswers : Process(msg, [clip |-> c], MaxQueue)
    \/ PreReset
    \/ HostReturn

SpecInput == InitTex /\ [][NextInput]_vars

\* the toolkit's output is self-consistent: every Managed texture a shape of the
\* frame names is cached when the frame starts or set by the frame.  Without failing
\* calls the cache holds exactly the ids the toolkit has set and not freed.
SelfConsistent(in) ==
    \A k \in DOMAIN in.output.shapes :
        LET tid == in.output.shapes[k].tex
        IN  tid.tag = "Managed" =>
                \/ tid \in DOMAIN textures
                \/ \E j \in DOMAIN in.output.textures_delta.set :
                       in.output.textures_delta.set[j].tid = tid

\* frames without failing calls whose shapes name the first texture, the second,
\* or both
RedrawFrames ==
    {Frame(Output(d, sh, rp, FALSE), {}) :
        d \in Deltas, sh \in {<<>>, <<MeshA>>, <<MeshB>>, <<MeshA, MeshB>>}, rp \in BOOLEAN}

\* the orchestrator under a self-consistent toolkit and a device whose calls succeed
NextRedraw ==
    \/ \E in \in RedrawFrames : SelfConsistent(in) /\ Present(in)
    \/ PreReset
    \/ HostReturn

SpecRedraw == Init /\ [][NextRedraw]_vars

\* every call of DxState::release as the one that fails
ReleaseFailures ==
    {<<"release", ReleaseCalls[k][1], ReleaseCalls[k][2]>> : k \in DOMAIN ReleaseCalls}

\* frames of one mesh in which the guard's release fails at any of its calls, after
\* a draw loop that succeeded or failed
GuardFrames ==
    {Frame(Output(d, <<MeshA>>, TRUE, FALSE), f) :
        d \in {[set |-> <<Whole(M1, Pixel)>>, free |-> <<>>], SetAndFree},
        f \in {{}, {<<"draw", "SetTexture", 1>>}, {<<"setup", "SetRenderState", 0>>}}
               \cup {{r} : r \in ReleaseFailures}
               \cup {{<<"draw", "DrawIndexedPrimitive", 1>>, r} : r \in ReleaseFailures}}

\* the state guard: frames that arm it and release it, on a host that renders to the
\* back buffer or to a surface of its own
NextGuard ==
    \/ \E in \in GuardFrames : Present(in)
    \/ PreReset
    \/ HostReturn

SpecGuard == Init /\ [][NextGuard]_vars

\* the clipboard functions called from any thread, in any interleaving
NextClipboard ==
    \/ \E t \in Threads, f \in {"get", "set"} : Call(t, f)
    \/ \E t \in Threads : Acquire(t)
    \/ \E t \in Threads : IsNone(t)
    \/ \E t \in Threads, ok \in BOOLEAN : New(t, ok)
    \/ \E t \in Threads, ok \in BOOLEAN : Contents(t, ok)

SpecClipboard == InitTex /\ [][NextClipboard]_vars

\* the frames of a device that is lost and reset: skipped frames, frames whose
\* buffer creation, texture recreation or input collection fails, and frames
\* without failing calls that set and free textures
GoodFrames == {Frame(Output(d, <<>>, FALSE, FALSE), {}) : d \in Deltas}

ResetFrames ==
    {SkippedFrame}
    \cup GoodFrames
    \cup {Frame(Output(NoDelta, <<>>, FALSE, FALSE), {f}) :
            f \in {<<"reset", "create_buffers", 0>>, <<"reallocate", "CreateTexture", 1>>,
                   <<"run", "GetClientRect", 0>>}}

\* the host calls present on an operational device whose calls succeed
GoodCall == op = "idle" /\ op' = "present" /\ arg' \in GoodFrames

NextReset ==
    \/ \E in \in ResetFrames : Present(in)
    \/ PreReset
    \/ HostReturn

\* the host's render loop: it takes every result, and it keeps calling present
\* until the device is operational again and its calls succeed
SpecReset ==
    /\ InitTex
    /\ [][NextReset]_vars
    /\ WF_vars(HostReturn)
    /\ SF_<<op, arg>>(GoodCall)

(***************************************************************************)
(* The properties.  A call record (op, arg, res, log, pre) stands between  *)
(* a handler's return and the host's next call: log holds the device calls *)
(* and steps of the handler in order, pre the state it started from.       *)
(***************************************************************************)
Logged(tag) == \E i \in DOMAIN log : log[i][1] = tag
Count(tag) == Cardinality({i \in DOMAIN log : log[i][1] = tag})
Returned == op = "present" /\ res \in {"ok", "err"}

C2_FailureReturnsError ==
    (op = "present" /\ Logged("fail")) => res = "err"

\* C3: in every frame the set deltas come before the first draw and the free deltas
\* after the last one; when a draw is issued every set delta of the frame has been
\* applied, and a texture of the cache it binds has a handle the frame has not
\* released.
C3_SetDrawFree ==
    op = "present" =>
        \A j \in DOMAIN log : log[j][1] = "DrawIndexedPrimitive" =>
            /\ \A i \in DOMAIN log : log[i][1] = "set" => i < j
            /\ \A i \in DOMAIN log : log[i][1] = "free" => j < i
            /\ Count("set") = Len(arg.output.textures_delta.set)
            /\ log[j][6].tag = "Managed" =>
                 /\ log[j][7] # NoHandle
                 /\ \A i \in 1..j : log[i] # <<"Release", log[j][7]>>

\* a frame that set a texture, drew with it and freed it
C3_DrawnThenFreed ==
    /\ op = "present" /\ res = "ok"
    /\ \E i, j, k \in DOMAIN log :
         /\ i < j /\ j < k
         /\ log[i] = <<"set", M1>>
         /\ log[j][1] = "DrawIndexedPrimitive" /\ log[j][6] = M1
         /\ log[k] = <<"free", M1>>
         /\ \E r \in DOMAIN log : k < r /\ log[r] = <<"Release", log[j][7]>>
    /\ M1 \notin DOMAIN textures

\* the ids a frame both sets and frees
SetAndFreed(delta) ==
    {delta.set[k].tid : k \in DOMAIN delta.set} \cap {delta.free[k] : k \in DOMAIN delta.free}

\* C4: when present returns, with Ok or with an error, an id the frame both set and
\* freed is not in the cache, and a texture the frame created for it has been
\* released once.
C4_SetAndFreedIsGone ==
    (Returned /\ arg.operational) =>
        \A tid \in SetAndFreed(arg.output.textures_delta) :
            /\ tid \notin DOMAIN textures
            /\ \A i \in DOMAIN log :
                 (i > 1 /\ log[i][1] = "CreateTexture" /\ log[i - 1] = <<"set", tid>>) =>
                     Cardinality({r \in DOMAIN log : log[r] = <<"Release", log[i][2]>>}) = 1

\* the colours of an image as the toolkit hands them over, and a texture holding them
ImageColors(img) ==
    [i \in 1..Len(img.pixels) |->
        IF img.kind = "Font" THEN SrgbaPixel(img.pixels[i]) ELSE img.pixels[i]]
SameColor(c, p) == p.r = c[1] /\ p.g = c[2] /\ p.b = c[3] /\ p.a = c[4]
Holds(tex, img) ==
    /\ tex.size = img.size
    /\ Len(tex.pixels) = Len(img.pixels)
    /\ \A i \in 1..Len(img.pixels) : SameColor(ImageColors(img)[i], tex.pixels[i])

\* the frame's one set delta and what it means for the texture it names
TheSet == arg.output.textures_delta.set[1]
Frees(tid) == \E k \in DOMAIN arg.output.textures_delta.free : arg.output.textures_delta.free[k] = tid
Sets(tid) == \E k \in DOMAIN arg.output.textures_delta.set : arg.output.textures_delta.set[k].tid = tid
\* a present that ran its frame to the end on a device that needed no reset, with one
\* set delta for an id it does not free
OneSetApplied ==
    /\ op = "present" /\ res = "ok" /\ arg.operational /\ ~pre.should_reset
    /\ Len(arg.output.textures_delta.set) = 1
    /\ ~Frees(TheSet.tid)

\* C5: after pre_reset, the reset step of the next present gives every cached id a
\* new device texture whose size and pixels are those of the image last uploaded
\* whole for the id, whether that upload created the entry, updated it at the same
\* size or replaced it at another size.
C5_ResetRecreatesUpload ==
    (op = "present" /\ res = "ok" /\ arg.operational /\ pre.should_reset) =>
        \A tid \in DOMAIN pre.textures : (~Sets(tid) /\ ~Frees(tid)) =>
            /\ pre.textures[tid].handle = NoHandle
            /\ tid \in DOMAIN textures
            /\ textures[tid].handle \in DOMAIN gpu
            /\ Holds(gpu[textures[tid].handle], uploaded[tid])

\* a texture of one by two pixels recreated by the present after a pre_reset
C5_RecreatedAfterReset ==
    /\ op = "present" /\ res = "ok" /\ pre.should_reset /\ ~should_reset
    /\ arg.output.textures_delta.set = <<>>
    /\ M1 \in DOMAIN textures /\ M1 \in DOMAIN pre.textures
    /\ pre.textures[M1].handle = NoHandle
    /\ textures[M1].handle \in DOMAIN gpu
    /\ uploaded[M1].size = <<1, 2>>
    /\ Holds(gpu[textures[M1].handle], uploaded[M1])

\* C6: the pixel store of every cache entry that has a device texture equals the
\* texture's content, whatever set deltas, whole or partial, were applied.
C6_StoreIsTextureContent ==
    \A tid \in DOMAIN textures :
        textures[tid].handle # NoHandle =>
            /\ gpu[textures[tid].handle].size = textures[tid].size
            /\ gpu[textures[tid].handle].pixels = textures[tid].pixels

\* C7: a partial set delta at (x, y) with a w by h patch, applied to a cached
\* texture, leaves the texture's handle and size alone and makes its pixels the
\* patch's inside [x, x+w) x [y, y+h) and what they were outside.
C7_PatchChangesRectangle ==
    (OneSetApplied /\ ~is_whole(TheSet) /\ TheSet.tid \in DOMAIN pre.textures) =>
        LET tid == TheSet.tid
            x == TheSet.pos[1]
            y == TheSet.pos[2]
            w == TheSet.image.size[1]
            h == TheSet.image.size[2]
            old == pre.gpu[pre.textures[tid].handle]
            new == gpu[textures[tid].handle]
        IN  /\ textures[tid].handle = pre.textures[tid].handle
            /\ textures[tid].size = pre.textures[tid].size
            /\ new.size = old.size
            /\ \A col \in 0..(old.size[1] - 1), row \in 0..(old.size[2] - 1) :
                 LET i == row * old.size[1] + col + 1
                 IN  IF col >= x /\ col < x + w /\ row >= y /\ row < y + h
                     THEN SameColor(ImageColors(TheSet.image)[(row - y) * w + (col - x) + 1],
                                    new.pixels[i])
                     ELSE new.pixels[i] = old.pixels[i]

\* a patch of one pixel put in the second column of the first row of a two by two
\* texture of another colour
C7_PatchedCorner ==
    /\ OneSetApplied /\ ~is_whole(TheSet) /\ TheSet.tid \in DOMAIN pre.textures
    /\ TheSet.pos = <<1, 0>> /\ TheSet.image.size = <<1, 1>>
    /\ pre.textures[TheSet.tid].size = <<2, 2>>
    /\ \A i \in 1..4 : pre.gpu[pre.textures[TheSet.tid].handle].pixels[i].r = 10
    /\ gpu[textures[TheSet.tid].handle].pixels[2].r # 10
    /\ gpu[textures[TheSet.tid].handle].pixels[3].r = 10

\* C8: a set delta for an id the cache lacks makes an entry with a new device
\* texture of the image's size and pixels and a pixel store equal to the image; a
\* whole delta of the entry's size updates the entry's texture in place and
\* replaces the store; a whole delta of another size releases the old texture and
\* puts a new one of the new size under the same id.
C8_SetDispatch ==
    OneSetApplied =>
        LET tid == TheSet.tid
            img == TheSet.image
            h == textures[tid].handle
            entry == [size |-> textures[tid].size, pixels |-> textures[tid].pixels]
        IN  IF tid \notin DOMAIN pre.textures
            THEN /\ tid \in DOMAIN textures
                 /\ h \notin DOMAIN pre.gpu
                 /\ DOMAIN gpu = (DOMAIN pre.gpu) \cup {h}
                 /\ Holds(gpu[h], img) /\ Holds(entry, img)
            ELSE IF is_whole(TheSet) /\ img.size = pre.textures[tid].size
            THEN /\ h = pre.textures[tid].handle
                 /\ DOMAIN gpu = DOMAIN pre.gpu
                 /\ Holds(gpu[h], img) /\ Holds(entry, img)
            ELSE IF is_whole(TheSet)
            THEN /\ h # pre.textures[tid].handle
                 /\ DOMAIN gpu = ((DOMAIN pre.gpu) \ {pre.textures[tid].handle}) \cup {h}
                 /\ Count("Release") = 1 /\ Count("CreateTexture") = 1
                 /\ Holds(gpu[h], img) /\ Holds(entry, img)
            ELSE TRUE

\* a whole delta of two by one pixels for an id cached at one by two
C8_Resized ==
    /\ OneSetApplied /\ is_whole(TheSet) /\ TheSet.tid \in DOMAIN pre.textures
    /\ pre.textures[TheSet.tid].size = <<1, 2>> /\ TheSet.image.size = <<2, 1>>
    /\ textures[TheSet.tid].size = <<2, 1>>
    /\ pre.textures[TheSet.tid].handle \notin DOMAIN gpu

\* C9: a frame whose free deltas name only ids the cache lacks returns Ok and
\* leaves every entry and every device texture as it was.
C9_FreeOfAbsentId ==
    (/\ op = "present" /\ arg.operational /\ ~pre.should_reset /\ arg.fail = {}
     /\ arg.output.textures_delta.set = <<>> /\ arg.output.textures_delta.free # <<>>
     /\ \A tid \in DOMAIN pre.textures : ~Frees(tid)) =>
        /\ res = "ok"
        /\ Logged("free") /\ ~Logged("Release")
        /\ textures = pre.textures
        /\ gpu = pre.gpu

\* a free of Managed(2) while only Managed(1) is cached
C9_FreedAbsentBesideCached ==
    /\ op = "present" /\ res = "ok" /\ ~pre.should_reset
    /\ arg.output.textures_delta = [set |-> <<>>, free |-> <<M2>>]
    /\ DOMAIN textures = {M1} /\ textures = pre.textures
    /\ textures[M1].handle \in DOMAIN gpu

\* C10: a present on a device that is not operational returns Ok having made no
\* other device call and run nothing: the pending-reset flag, the cache, the
\* buffers, the retained descriptors and the queued input are as they were.
C10_SkippedFrame ==
    (op = "present" /\ ~arg.operational) =>
        /\ res = "ok"
        /\ log = << <<"TestCooperativeLevel", FALSE>> >>
        /\ Core = pre

\* a skipped frame of an instance with a reset pending, a queued event and
\* retained descriptors
C10_SkippedWithPendingWork ==
    /\ op = "present" /\ ~arg.operational /\ res = "ok"
    /\ should_reset /\ events # <<>> /\ prims # <<>> /\ textures # <<>>

\* the position of the first entry of the log with the tag, 0 when there is none
First(tag) ==
    IF Logged(tag) THEN CHOOSE i \in DOMAIN log : log[i][1] = tag /\ \A j \in 1..(i - 1) : log[j][1] # tag
    ELSE 0

\* the calls of a frame that binds and draws
DrawPhase == {"setup", "SetStreamSource", "SetIndices", "SetScissorRect", "SetTexture",
              "DrawIndexedPrimitive"}

\* C11: a present on an operational device with a reset pending creates the buffers
\* once and a device texture for every cached entry from the entry's pixel store
\* before it runs the toolkit, and whatever the reactive mode and the toolkit's
\* repaint answer it retessellates and uploads both buffers before the first call
\* of its bind and draw phase.
C11_ResetThenRepaint ==
    (op = "present" /\ arg.operational /\ pre.should_reset /\ Logged("run")) =>
        /\ Count("create_buffers") = 1 /\ First("create_buffers") < First("run")
        /\ Cardinality({i \in 1..First("run") : log[i][1] = "CreateTexture"})
             = Cardinality(DOMAIN pre.textures)
        /\ ~should_reset
        /\ \A tid \in DOMAIN pre.textures : (~Sets(tid) /\ ~Frees(tid)) =>
             /\ tid \in DOMAIN textures
             /\ textures[tid].handle \in DOMAIN gpu
             /\ gpu[textures[tid].handle] =
                  [size |-> pre.textures[tid].size, pixels |-> pre.textures[tid].pixels]
        /\ \A j \in DOMAIN log : log[j][1] \in DrawPhase =>
             /\ Logged("tessellate") /\ First("tessellate") < j
             /\ Logged("update_vertex_buffer") /\ First("update_vertex_buffer") < j
             /\ Logged("update_index_buffer") /\ First("update_index_buffer") < j
             /\ First("run") < First("tessellate")

\* a reactive instance whose toolkit asked for no repaint draws, after a reset, two
\* meshes with recreated textures
C11_ReactiveResetFrame ==
    /\ op = "present" /\ res = "ok" /\ pre.should_reset /\ pre.reactive
    /\ ~arg.output.repaint
    /\ DOMAIN pre.textures = {M1, M2}
    /\ Count("CreateTexture") = 2 /\ Count("DrawIndexedPrimitive") = 2
    /\ Logged("tessellate")

\* C12: pre_reset returns with both buffers released, no entry holding a handle, no
\* device texture left and the pending-reset flag set, the cached ids and each
\* entry's pixel store and size being what they were; the instance's drop releases
\* the buffers and every handle in the same way.
C12_PreResetReleases ==
    (op \in {"pre_reset", "drop"}) =>
        /\ res = "ok"
        /\ ~buffers.vtx /\ ~buffers.idx
        /\ \A tid \in DOMAIN textures : textures[tid].handle = NoHandle
        /\ DOMAIN gpu = {}
        /\ Count("Release") = Cardinality(DOMAIN pre.gpu)
        /\ op = "pre_reset" =>
             /\ should_reset
             /\ DOMAIN textures = DOMAIN pre.textures
             /\ \A tid \in DOMAIN textures :
                  /\ textures[tid].pixels = pre.textures[tid].pixels
                  /\ textures[tid].size = pre.textures[tid].size

\* a pre_reset of an instance with buffers and two textures on the device
C12_TwoTexturesLost ==
    /\ op = "pre_reset" /\ ~pre.should_reset /\ should_reset
    /\ pre.buffers.vtx /\ pre.buffers.idx
    /\ DOMAIN pre.textures = {M1, M2} /\ DOMAIN textures = {M1, M2}
    /\ Cardinality(DOMAIN pre.gpu) = 2 /\ DOMAIN gpu = {}

\* C13: a pre_reset or a drop that follows a pre_reset returns normally, releases
\* nothing and leaves the instance as the first pre_reset left it: buffers
\* released, no handle, the pixel stores intact, the pending-reset flag set.
C13_ReleaseIdempotent ==
    (/\ op \in {"pre_reset", "drop"}
     /\ pre.should_reset /\ ~pre.buffers.vtx /\ ~pre.buffers.idx
     /\ \A tid \in DOMAIN pre.textures : pre.textures[tid].handle = NoHandle) =>
        /\ res = "ok"
        /\ ~Logged("Release")
        /\ Core = pre
        /\ should_reset /\ buffers = NoBuffers

\* a second pre_reset of an instance that caches two textures
C13_SecondPreReset ==
    /\ op = "pre_reset" /\ pre.should_reset /\ ~pre.buffers.vtx
    /\ DOMAIN textures = {M1, M2}
    /\ \A tid \in DOMAIN pre.textures : pre.textures[tid].handle = NoHandle
    /\ Core = pre

\* C14: a present whose toolkit output has no shapes makes no call of the bind and
\* draw phase, arms no guard, neither retessellates nor uploads, leaves the device
\* state and the retained geometry alone and, unless the reset step or a set delta
\* failed, applies every free delta of the frame and returns Ok.
C14_NoShapes ==
    (op = "present" /\ arg.operational /\ arg.output.shapes = <<>>) =>
        /\ \A j \in DOMAIN log :
             /\ log[j][1] \notin DrawPhase
             /\ log[j][1] \notin {"tessellate", "update_vertex_buffer", "update_index_buffer",
                                  "released", "Apply"}
             /\ log[j][1] = "fail" => log[j][2] \in {"reset", "reallocate", "set"}
        /\ dev = pre.dev
        /\ prims = pre.prims /\ vertices = pre.vertices /\ indices = pre.indices
        /\ res = "ok" \/ Logged("fail") \/ Logged("panic")
        /\ res = "ok" =>
             /\ Count("free") = Len(arg.output.textures_delta.free)
             /\ \A tid \in DOMAIN pre.textures : Frees(tid) => tid \notin DOMAIN textures

\* a frame without shapes that frees a cached texture while descriptors are retained
C14_FreedWithoutDrawing ==
    /\ op = "present" /\ res = "ok" /\ arg.operational /\ arg.output.shapes = <<>>
    /\ arg.output.textures_delta.free = <<M1>>
    /\ M1 \in DOMAIN pre.textures /\ M1 \notin DOMAIN textures
    /\ Logged("Release")
    /\ pre.prims # <<>>

\* C15: a frame whose tessellation meets a primitive that is not a mesh panics
\* there: present does not return, and the frame makes no call of its bind and draw
\* phase, not even for the meshes that precede the primitive.
C15_CallbackIsFatal ==
    (/\ op = "present" /\ Logged("tessellate")
     /\ \E k \in DOMAIN arg.output.shapes : arg.output.shapes[k].kind # "Mesh") =>
        /\ res = "panic"
        /\ log[Len(log)][1] = "panic" /\ log[Len(log)][2] = "paint callbacks not supported"
        /\ \A j \in DOMAIN log : log[j][1] \notin DrawPhase
        /\ ~Logged("update_vertex_buffer") /\ ~Logged("update_index_buffer")

\* a mesh with a cached texture followed by a paint callback
C15_MeshThenCallback ==
    /\ op = "present" /\ res = "panic"
    /\ arg.output.shapes = <<MeshA, Callback>>
    /\ M1 \in DOMAIN textures /\ textures[M1].handle \in DOMAIN gpu
    /\ log[Len(log)] = <<"panic", "paint callbacks not supported", 2>>
    /\ ~Logged("DrawIndexedPrimitive")

\* a texture id the draw loop of the recorded frame could not resolve: a Managed id
\* the cache lacked or held without a handle, a User id the handler does not know
Unresolved(tid) ==
    IF tid.tag = "Managed"
    THEN \/ tid \notin DOMAIN textures /\ \A i \in DOMAIN log : log[i] # <<"free", tid>>
         \/ tid \in DOMAIN textures /\ textures[tid].handle = NoHandle
    ELSE tid.id \notin arg.user_textures

\* C16: in a frame that reaches its draw loop, a mesh descriptor whose texture
\* cannot be resolved stops the frame: neither that mesh nor a later one is drawn
\* and present does not return Ok; when no device call fails the frame ends in the
\* panic raised at the first such mesh.
C16_UnresolvedTextureAborts ==
    (op = "present" /\ Logged("SetIndices")) =>
        \A k \in DOMAIN prims : Unresolved(prims[k].texture_id) =>
            /\ res # "ok"
            /\ Count("DrawIndexedPrimitive") < k
            /\ \A j \in DOMAIN log :
                 log[j][1] \in {"SetTexture", "DrawIndexedPrimitive"} =>
                     log[j][IF log[j][1] = "SetTexture" THEN 2 ELSE 6] # prims[k].texture_id
            /\ arg.fail = {} =>
                 /\ res = "panic"
                 /\ \E i \in DOMAIN log, m \in 1..k :
                      /\ log[i] = <<"panic", "unable to retrieve texture", m>>
                      /\ Unresolved(prims[m].texture_id)
                      /\ Count("DrawIndexedPrimitive") = m - 1

\* the second of two meshes names a texture the cache lacks: the first is drawn, the
\* frame panics at the second
C16_SecondMeshUnresolved ==
    /\ op = "present" /\ res = "panic" /\ arg.fail = {}
    /\ Len(prims) = 2 /\ prims[2].texture_id = M2
    /\ M1 \in DOMAIN textures /\ M2 \notin DOMAIN textures
    /\ Count("DrawIndexedPrimitive") = 1
    /\ \E i \in DOMAIN log : log[i] = <<"panic", "unable to retrieve texture", 2>>

IsDraw(e) == e[1] = "DrawIndexedPrimitive"
Draws == SelectSeq(log, IsDraw)

\* C17: a reactive instance whose toolkit asks for no repaint, with no reset
\* pending, neither retessellates nor uploads in a frame with shapes: descriptors,
\* geometry and buffers stay what they were, and a frame that returns Ok has drawn
\* exactly the retained descriptors in order.  An instance that is not reactive
\* retessellates and uploads both buffers before the first call of the bind and
\* draw phase of every frame with shapes.
C17_ReactiveRedraw ==
    (op = "present" /\ arg.operational /\ arg.output.shapes # <<>>) =>
        /\ (pre.reactive /\ ~arg.output.repaint /\ ~pre.should_reset) =>
             /\ ~Logged("tessellate")
             /\ ~Logged("update_vertex_buffer") /\ ~Logged("update_index_buffer")
             /\ prims = pre.prims /\ vertices = pre.vertices /\ indices = pre.indices
             /\ buffers = pre.buffers
             /\ res = "ok" =>
                  /\ Len(Draws) = Len(pre.prims)
                  /\ \A k \in DOMAIN Draws :
                       /\ Draws[k][3] = pre.prims[k].vertices
                       /\ Draws[k][5] = pre.prims[k].indices \div 3
                       /\ Draws[k][6] = pre.prims[k].texture_id
        /\ ~pre.reactive =>
             /\ \A j \in DOMAIN log : log[j][1] \in DrawPhase =>
                  /\ Logged("tessellate") /\ First("tessellate") < j
                  /\ Logged("update_vertex_buffer") /\ First("update_vertex_buffer") < j
                  /\ Logged("update_index_buffer") /\ First("update_index_buffer") < j
             /\ res = "ok" =>
                  /\ Logged("tessellate")
                  /\ buffers.vdata = vertices /\ buffers.idata = indices
                  /\ Len(Draws) = Len(prims)

\* a reactive frame of one shape, no repaint asked, that draws the two meshes
\* retained from an earlier frame
C17_RetainedMeshesDrawn ==
    /\ op = "present" /\ res = "ok" /\ pre.reactive /\ ~pre.should_reset
    /\ ~arg.output.repaint
    /\ Len(arg.output.shapes) = 1 /\ Len(pre.prims) = 2
    /\ Len(Draws) = 2 /\ Draws[2][6] = M2
    /\ ~Logged("tessellate")

\* C18 as stated: every present on an operational device that returns has handed the
\* pending events to the toolkit and left the queue empty.
C18_EveryPresentDrains ==
    (op = "present" /\ arg.operational /\ res \in {"ok", "err"}) =>
        /\ Count("run") = 1
        /\ events = <<>>

\* C18, amended: wnd_proc only appends to the pending events; a present that gets
\* past its reset step hands the toolkit the whole queue once, in order, and leaves
\* it empty; a present that is skipped or returns the error of its reset step, a
\* pre_reset and the host's return leave the queue as it was.  So over any sequence
\* of calls every appended event reaches the toolkit once, in append order.
C18_EventsOnceInOrder ==
    /\ [](op = "wnd_proc" =>
              /\ Len(events) >= Len(pre.events)
              /\ SubSeq(events, 1, Len(pre.events)) = pre.events)
    /\ [](op = "present" =>
              /\ Count("run") <= 1
              /\ Logged("run") => log[First("run")][2] = pre.events /\ events = <<>>
              /\ ~Logged("run") => events = pre.events
              /\ (arg.operational /\ ~Logged("run")) =>
                   /\ pre.should_reset
                   /\ \E i \in DOMAIN log :
                        log[i][1] = "fail" /\ log[i][2] \in {"reset", "reallocate"})
    /\ [](op = "pre_reset" => events = pre.events)
    /\ [][HostReturn => events' = events]_vars

\* a present that hands over three events queued by two messages
C18_ThreeEventsDrained ==
    /\ op = "present" /\ res = "ok"
    /\ pre.events = <<"PointerMoved", "Copy", "Key">>
    /\ Logged("run")
    /\ log[First("run")] = <<"run", <<"PointerMoved", "Copy", "Key">>>>
    /\ events = <<>>

\* C19: a present whose write of the copied text fails goes on with the frame as
\* if it had succeeded: it applies the free deltas, and with shapes it retessellates,
\* arms the guard and draws every mesh, and it returns Ok when no device call
\* fails.  A Ctrl+V whose clipboard read fails appends the key event and nothing
\* else, and process returns Key.
C19_ClipboardFailureIgnored ==
    /\ (op = "present" /\ \E i \in DOMAIN log : log[i] = <<"set_clipboard_text", "err">>) =>
         /\ arg.fail = {} => res = "ok"
         /\ Count("free") = Len(arg.output.textures_delta.free)
         /\ arg.output.shapes # <<>> =>
              /\ Logged("tessellate") /\ Logged("setup") /\ Logged("released")
              /\ Len(Draws) = Len(prims) /\ Len(prims) = Len(arg.output.shapes)
    /\ (op = "wnd_proc" /\ arg.msg = KeyDown("V", TRUE) /\ arg.clip # "ok") =>
         /\ res = "ok"
         /\ events = pre.events \o <<"Key">>
         /\ log = << <<"process", "Key">> >>

\* a frame with copied text and a mesh whose clipboard write fails: the mesh is drawn
C19_DrawnAfterFailedCopy ==
    /\ op = "present" /\ res = "ok"
    /\ arg.output.copied_text /\ arg.clip = "op_fails"
    /\ \E i \in DOMAIN log : log[i] = <<"set_clipboard_text", "err">>
    /\ Len(Draws) = 1 /\ Logged("free")

\* a Ctrl+V while the clipboard cannot be opened, with an event already pending
C19_PasteWithoutClipboard ==
    /\ op = "wnd_proc" /\ arg.msg = KeyDown("V", TRUE) /\ arg.clip = "new_fails"
    /\ pre.events = <<"PointerMoved">> /\ events = <<"PointerMoved", "Key">>

\* C20 as stated: in a frame that draws, the guard restores the host's state after
\* the last draw and before any free delta of the frame is applied.
C20_RestoreBeforeFrees ==
    (Returned /\ Logged("DrawIndexedPrimitive") /\ Logged("released")) =>
        \A i, j \in DOMAIN log :
            /\ (log[i][1] = "DrawIndexedPrimitive" /\ log[j][1] = "Apply") => i < j
            /\ (log[i][1] = "Apply" /\ log[j][1] = "free") => i < j

\* C20, amended: in a frame that draws and returns with the guard armed, the guard
\* restores the host's state after the last draw and after the frame's free deltas:
\* every draw precedes every free delta, every free delta and every texture release
\* precedes the first call of the restore, and the restore ends the frame.
C20_FreesBeforeRestore ==
    (Returned /\ Logged("DrawIndexedPrimitive") /\ Logged("setup")) =>
        /\ Logged("released") /\ log[Len(log)][1] = "released"
        /\ \A i \in DOMAIN log :
             log[i][1] \in {"DrawIndexedPrimitive", "free", "Release"} =>
                 i < First("SetTransform")
        /\ \A i, j \in DOMAIN log :
             (log[i][1] = "DrawIndexedPrimitive" /\ log[j][1] = "free") => i < j
        /\ res = "ok" => Count("free") = Len(arg.output.textures_delta.free)

\* a frame that draws with a texture and frees it: the texture is released before
\* the host's state is back
C20_FreedUnderTheGuard ==
    /\ op = "present" /\ res = "ok" /\ Logged("setup")
    /\ \E j, i, r \in DOMAIN log :
         /\ j < i /\ i < r /\ r < First("SetTransform")
         /\ log[j][1] = "DrawIndexedPrimitive" /\ log[j][6] = M1
         /\ log[i] = <<"free", M1>>
         /\ log[r] = <<"Release", log[j][7]>>
    /\ log[Len(log)][1] = "released"


\* C21: whenever the program stands between two calls of its public operations (no
\* panic has unwound it and it has not been dropped), no cache entry has a handle
\* while the pending-reset flag is set, and every cache entry has a handle of a live
\* device texture while the flag is clear.
C21_HandleAbsentIffResetPending ==
    (op # "drop" /\ res # "panic") =>
        \A tid \in DOMAIN textures :
            /\ should_reset => textures[tid].handle = NoHandle
            /\ ~should_reset =>
                 /\ textures[tid].handle # NoHandle
                 /\ textures[tid].handle \in DOMAIN gpu

\* a present that found the flag set and two entries without handles, and returned
\* with the flag clear and both entries recreated
C21_FlagClearedWithHandles ==
    /\ op = "present" /\ res = "ok" /\ pre.should_reset /\ ~should_reset
    /\ DOMAIN pre.textures = {M1, M2}
    /\ \A tid \in DOMAIN pre.textures : pre.textures[tid].handle = NoHandle
    /\ DOMAIN textures = {M1, M2}
    /\ \A tid \in DOMAIN textures : textures[tid].handle \in DOMAIN gpu

\* C22 as stated: under a self-consistent toolkit, no present fails to look up the
\* texture of a mesh descriptor it draws, and every draw call of a Managed texture
\* binds the handle of a live device texture.
C22_LookupNeverFails ==
    op = "present" =>
        \A i \in DOMAIN log :
            /\ log[i][1] = "panic" => log[i][2] # "unable to retrieve texture"
            /\ (log[i][1] = "DrawIndexedPrimitive" /\ log[i][6].tag = "Managed") =>
                 log[i][7] # NoHandle

\* what the code keeps: a frame that retessellates (the instance is not reactive, or
\* a repaint is requested or forced by a reset) never fails a lookup
C22_RetessellatedLookupNeverFails ==
    (op = "present" /\ Logged("tessellate")) =>
        \A i \in DOMAIN log :
            log[i][1] = "panic" => log[i][2] # "unable to retrieve texture"

\* the vertex and index counts of the first n descriptors of p, added up
RECURSIVE VertexSum(_, _)
VertexSum(p, n) == IF n = 0 THEN 0 ELSE VertexSum(p, n - 1) + p[n].vertices

RECURSIVE IndexSum(_, _)
IndexSum(p, n) == IF n = 0 THEN 0 ELSE IndexSum(p, n - 1) + p[n].indices

\* C23: the draw calls of a frame are those of its mesh descriptors in list order,
\* one per descriptor: the k-th call draws descriptor k with its texture, its vertex
\* count and a third of its index count as the number of triangles, from the base
\* vertex and the start index that are the sums of the vertex and index counts of
\* the descriptors before it; a frame that returns Ok from its draw loop has drawn
\* every descriptor.
C23_DrawsPartitionArrays ==
    op = "present" =>
        /\ Len(Draws) <= Len(prims)
        /\ \A k \in DOMAIN Draws :
             /\ Draws[k][2] = VertexSum(prims, k - 1)
             /\ Draws[k][3] = prims[k].vertices
             /\ Draws[k][4] = IndexSum(prims, k - 1)
             /\ Draws[k][5] = prims[k].indices \div 3
             /\ Draws[k][6] = prims[k].texture_id
             /\ k > 1 =>
                  /\ Draws[k][2] = Draws[k - 1][2] + Draws[k - 1][3]
                  /\ Draws[k][4] = Draws[k - 1][4] + 3 * Draws[k - 1][5]
        /\ (res = "ok" /\ Logged("SetIndices")) => Len(Draws) = Len(prims)

\* two meshes of three and four vertices: the second draw starts at vertex 3 and
\* index 3 and draws two triangles
C23_SecondDrawOffset ==
    /\ op = "present" /\ res = "ok" /\ Len(Draws) = 2
    /\ Draws[1][2] = 0 /\ Draws[1][3] = 3 /\ Draws[1][4] = 0 /\ Draws[1][5] = 1
    /\ Draws[2][2] = 3 /\ Draws[2][3] = 4 /\ Draws[2][4] = 3 /\ Draws[2][5] = 2
    /\ Draws[1][6] = M1 /\ Draws[2][6] = M2

\* the vertices and the indices of the first n shapes that yield a descriptor
RECURSIVE FlatVertices(_, _)
FlatVertices(shapes, n) ==
    IF n = 0 THEN <<>>
    ELSE FlatVertices(shapes, n - 1)
            \o (IF from_mesh_is_some(shapes[n]) THEN shapes[n].verts ELSE <<>>)

RECURSIVE FlatIndices(_, _)
FlatIndices(shapes, n) ==
    IF n = 0 THEN <<>>
    ELSE FlatIndices(shapes, n - 1)
            \o (IF from_mesh_is_some(shapes[n]) THEN shapes[n].idxs ELSE <<>>)

\* the frame's retessellation ran to its end
Retessellated ==
    /\ op = "present" /\ Logged("tessellate")
    /\ \A i \in DOMAIN log : log[i][1] = "panic" => log[i][2] # "paint callbacks not supported"

\* C24: after a retessellation the flat vertex array is as long as the vertex counts
\* of the mesh descriptors add up to and the flat index array as long as their index
\* counts add up to; the arrays hold the geometry of this frame's shapes and nothing
\* of an earlier frame, there is one descriptor per shape that yields one, and a
\* shape that yields none adds nothing to the arrays.
C24_ArraysMatchDescriptors ==
    Retessellated =>
        /\ Len(vertices) = VertexSum(prims, Len(prims))
        /\ Len(indices) = IndexSum(prims, Len(prims))
        /\ vertices = FlatVertices(arg.output.shapes, Len(arg.output.shapes))
        /\ indices = FlatIndices(arg.output.shapes, Len(arg.output.shapes))
        /\ Len(prims) = Cardinality({k \in DOMAIN arg.output.shapes :
                                        from_mesh_is_some(arg.output.shapes[k])})

\* after a frame of two meshes, a frame of an empty mesh and a mesh of three
\* vertices: one descriptor, three vertices, three indices
C24_ShorterFrameReplaces ==
    /\ Retessellated /\ res = "ok"
    /\ Len(pre.prims) = 2 /\ Len(pre.vertices) = 7 /\ Len(pre.indices) = 9
    /\ Len(arg.output.shapes) = 2 /\ ~from_mesh_is_some(arg.output.shapes[1])
    /\ Len(prims) = 1 /\ vertices = <<1, 2, 3>> /\ indices = <<0, 1, 2>>

IsRestore(e) == e[1] \in {"SetTransform", "StretchRect", "SetRenderTarget", "Apply"}
Restores == SelectSeq(log, IsRestore)

\* the calls of the recorded frame's release that fail
Failing ==
    {k \in DOMAIN ReleaseCalls :
        <<"release", ReleaseCalls[k][1], ReleaseCalls[k][2]>> \in arg.fail}

\* the first failing call of release, or one past the last
StopsAt == IF Failing = {} THEN Len(ReleaseCalls) + 1 ELSE Min(Failing)

\* how many restoring calls succeed before release stops (GetBackBuffer and
\* GetRenderTarget restore nothing)
Restored == Cardinality({j \in 1..(StopsAt - 1) : j \notin {4, 5}})

\* the restoring calls of a release that binds target as the render target
RestoreOrder(target) ==
    << <<"SetTransform", "world", pre.dev.xf.world>>,
       <<"SetTransform", "view", pre.dev.xf.view>>,
       <<"SetTransform", "proj", pre.dev.xf.proj>>,
       <<"StretchRect", "overlay", "backbuffer">>,
       <<"SetRenderTarget", target, "">>,
       <<"Apply", pre.dev.sb, "">> >>

IsGuardEnd(e) ==
    \/ e[1] = "released"
    \/ e[1] = "panic" /\ e[2] = "unable to release state"

GuardEnds == SelectSeq(log, IsGuardEnd)

\* C27: a present arms at most one state guard; a guard that was armed is ended
\* exactly once, by the last step of the call and after it was armed, so that no
\* guard is live when the call is over, however it ends; a call that armed none
\* makes no restoring call, and no other operation arms or ends a guard.
C27_AtMostOneGuard ==
    /\ op = "present" =>
         /\ Count("setup") <= 1
         /\ Len(GuardEnds) = Count("setup")
         /\ Logged("setup") =>
              /\ IsGuardEnd(log[Len(log)])
              /\ First("setup") < Len(log)
         /\ ~Logged("setup") => Restores = <<>>
    /\ op # "present" => (~Logged("setup") /\ GuardEnds = <<>> /\ Restores = <<>>)

\* a frame that panicked in its draw loop over a texture the cache lacks, with the
\* guard armed: the guard was released on the way out
C27_ReleasedWhileUnwinding ==
    /\ op = "present" /\ res = "panic" /\ arg.fail = {}
    /\ Count("setup") = 1 /\ Count("released") = 1
    /\ \E i \in DOMAIN log :
          /\ log[i][1] = "panic" /\ log[i][2] = "unable to retrieve texture"
          /\ First("setup") < i /\ i < First("released")

\* the threads between lock() and the drop of the MutexGuard
Inside == {t \in Threads : threads.pc[t] \in {"check", "new", "op"}}

\* C28: at most one thread is inside the clipboard functions' locked region, and it
\* is the one that holds the mutex; at most one context is ever created; the slot
\* holds a context from the moment one was created, so a thread creates one only
\* while the slot is empty and every call after the creation reaches get_contents /
\* set_contents with the context already there; a creation that failed has left
\* the slot empty, and no call finds the slot empty at get_contents / set_contents.
C28_OneContextUnderLock ==
    /\ Cardinality(Inside) <= 1
    /\ \A t \in Threads : (t \in Inside) <=> (threads.owner = t)
    /\ threads.created <= 1
    /\ clipboard <=> (threads.created = 1)
    /\ \A t \in Threads :
         /\ threads.pc[t] = "new" => ~clipboard
         /\ threads.pc[t] = "op" => clipboard
         /\ threads.result[t] # "panic"

\* a creation failed, a later call created the context, and a thread now stands at
\* get_contents / set_contents while another waits for the mutex
C28_CreatedAfterFailure ==
    /\ threads.failed /\ threads.created = 1
    /\ \E t, u \in Threads : threads.pc[t] = "op" /\ threads.pc[u] = "lock"

\* C29 as stated: a present that issued a draw call drew from buffers that hold the
\* upload of the flat arrays of the current mesh descriptors.
C29_DrawsFromCurrentUpload ==
    (op = "present" /\ Logged("DrawIndexedPrimitive")) =>
        /\ buffers.vdata = vertices
        /\ buffers.idata = indices
        /\ Len(buffers.vdata) = VertexSum(prims, Len(prims))
        /\ Len(buffers.idata) = IndexSum(prims, Len(prims))

\* what the code keeps: a frame that retessellated has uploaded both arrays before
\* its first draw call
C29_RetessellatedDrawsFromUpload ==
    (op = "present" /\ Logged("DrawIndexedPrimitive") /\ Logged("tessellate")) =>
        /\ buffers.vdata = vertices
        /\ buffers.idata = indices
        /\ Len(buffers.vdata) = VertexSum(prims, Len(prims))
        /\ Len(buffers.idata) = IndexSum(prims, Len(prims))

\* the recorded present, with no reset pending, returned the error of its one set
\* delta on a cached id
FailedUpdate ==
    /\ op = "present" /\ res = "err" /\ ~pre.should_reset
    /\ Len(arg.output.textures_delta.set) = 1
    /\ TheSet.tid \in DOMAIN pre.textures
    /\ \E i \in DOMAIN log : log[i][1] = "fail" /\ log[i][2] = "set"

\* C30 as stated: a set delta on a cached id that fails leaves the entry of the id
\* in the cache with the handle, the pixel store and the size it had.
C30_FailedSetKeepsEntry ==
    FailedUpdate =>
        /\ TheSet.tid \in DOMAIN textures
        /\ textures[TheSet.tid] = pre.textures[TheSet.tid]

\* what the code keeps: a failed partial update and a failed whole update of the
\* same size leave the entry and the device's texture as they were
C30_FailedUpdateInPlaceKeepsEntry ==
    (FailedUpdate /\ (~is_whole(TheSet) \/ TheSet.image.size = pre.textures[TheSet.tid].size)) =>
        /\ TheSet.tid \in DOMAIN textures
        /\ textures[TheSet.tid] = pre.textures[TheSet.tid]
        /\ gpu = pre.gpu

\* the present at hand failed to create the buffers
BufferFailure ==
    \E i \in DOMAIN log : log[i][1] = "fail" /\ log[i][3] = "create_buffers"

\* the present at hand created the buffers and gave every entry it found a handle
\* of a live device texture
Recreated ==
    /\ Logged("create_buffers") /\ ~BufferFailure
    /\ buffers.vtx /\ buffers.idx
    /\ \A tid \in DOMAIN pre.textures \cap DOMAIN textures :
           /\ textures[tid].handle # NoHandle
           /\ textures[tid].handle \in DOMAIN gpu

\* C31: the pending-reset flag goes from set to clear only in a present that
\* recreated the buffers and every cached texture; a present whose buffer creation
\* fails returns the error with the flag still set and the cache untouched, and every
\* present on an operational device that starts with the flag set attempts the
\* recreation again; a present that recreated the buffers and returned has cleared
\* the flag; the flag goes from clear to set only in pre_reset; and under a host
\* that keeps presenting until a frame's calls succeed, a set flag is eventually
\* cleared unless a panic ends the program.
C31_FlagClearedByRecreation ==
    /\ [][(should_reset /\ ~should_reset') => (op' = "present" /\ Recreated')]_vars
    /\ [][(~should_reset /\ should_reset') => op' = "pre_reset"]_vars
    /\ []((op = "present" /\ BufferFailure) =>
            (res = "err" /\ pre.should_reset /\ should_reset /\ ~Logged("run")
             /\ textures = pre.textures /\ buffers = pre.buffers))
    /\ []((op = "present" /\ pre.should_reset /\ arg.operational) =>
            (Logged("create_buffers") \/ BufferFailure))
    /\ []((op = "present" /\ pre.should_reset /\ Logged("create_buffers") /\ res # "panic") =>
            ~should_reset)
    /\ should_reset ~> (~should_reset \/ res = "panic")

\* a present that found the flag set and an entry without a handle, failed to create
\* the buffers and returned the error with the flag still set
C31_FailedRecreationKeepsFlag ==
    /\ op = "present" /\ res = "err" /\ BufferFailure
    /\ pre.should_reset /\ should_reset
    /\ M1 \in DOMAIN textures /\ textures[M1].handle = NoHandle
=============================================================================
